---- MODULE Spec2Model ----
(***************************************************************************)
(* A model of nosh (rcorre/nosh): the nutrient-resolution engine           *)
(* (Food::serve), the file-backed Database and the composite-record        *)
(* loaders (Journal::load, Food::load).                                    *)
(*                                                                         *)
(* Numbers.  The program computes in f32.  A number is modelled as an      *)
(* extended rational [n |-> numerator, d |-> denominator]: d > 0 is a      *)
(* finite value in lowest terms, <<1,0>> is +inf, <<-1,0>> is -inf and     *)
(* <<0,0>> is NaN, so that a division by a zero serving size is the value  *)
(* IEEE arithmetic gives and not an exception.  Rounding and the sign of   *)
(* zero are not modelled.                                                  *)
(*                                                                         *)
(* Text.  A string is a sequence of one-character strings.                 *)
(***************************************************************************)
EXTENDS Integers, Sequences, FiniteSets, TLC

VARIABLES
    mode,       \* which entry point of the program this behaviour exercises
    food,       \* serve: the Food value serve is called on
    serving,    \* serve: the Serving passed to serve
    result,     \* serve, load: what the call returned, NoResult before the call
    pc,         \* position of the running call
    fs,         \* Database: the files and directories under the root directory
    last,       \* Database: the last call made, its arguments and what it returned
    input       \* load: the text and the food resolver a loader is called with

vars == <<mode, food, serving, result, pc, fs, last, input>>

-----------------------------------------------------------------------------
(* f32 arithmetic on extended rationals *)

Abs(x) == IF x < 0 THEN -x ELSE x

Sign(x) == IF x < 0 THEN -1 ELSE IF x > 0 THEN 1 ELSE 0

RECURSIVE GCD(_, _)
GCD(a, b) == IF b = 0 THEN a ELSE GCD(b, a % b)

\* The number n/d in canonical form.
Num(n, d) ==
    IF d = 0 THEN [n |-> Sign(n), d |-> 0]
    ELSE LET s == Sign(d)
             g == GCD(Abs(n), Abs(d))
         IN  [n |-> (s * n) \div g, d |-> (s * d) \div g]

Zero == Num(0, 1)
One == Num(1, 1)
NaN == Num(0, 0)
Inf == Num(1, 0)

IsFinite(x) == x.d > 0

\* f32 `*`: inf * 0 = NaN, inf * x = +-inf.
FMul(a, b) == Num(a.n * b.n, a.d * b.d)

\* f32 `/`: x / 0 = +-inf, 0 / 0 = NaN, x / inf = 0, inf / inf = NaN.
FDiv(a, b) == Num(a.n * b.d * Sign(b.n), a.d * Abs(b.n))

\* f32 `+`: inf + inf = inf, inf + -inf = NaN.
FAdd(a, b) ==
    IF a.d = 0 /\ b.d = 0
    THEN (IF a.n = b.n THEN a ELSE NaN)
    ELSE Num(a.n * b.d + b.n * a.d, a.d * b.d)

-----------------------------------------------------------------------------
(* Nutrients *)

Nutrients(c, f, p, k) == [carb |-> c, fat |-> f, protein |-> p, kcal |-> k]

\* Nutrients::default(): every component 0.0.
NutrientsDefault == Nutrients(Zero, Zero, Zero, Zero)

\* impl Add<Nutrients> for Nutrients
NAdd(a, b) ==
    Nutrients(FAdd(a.carb, b.carb), FAdd(a.fat, b.fat),
              FAdd(a.protein, b.protein), FAdd(a.kcal, b.kcal))

\* Mutant of NMul: kcal is copied instead of scaled.
NMul_KcalUnscaled(a, rhs) ==
    Nutrients(FMul(a.carb, rhs), FMul(a.fat, rhs), FMul(a.protein, rhs), a.kcal)

\* impl Mul<f32> for Nutrients
NMul(a, rhs) ==
    Nutrients(FMul(a.carb, rhs), FMul(a.fat, rhs),
              FMul(a.protein, rhs), FMul(a.kcal, rhs))

-----------------------------------------------------------------------------
(* Serving *)

None == [some |-> FALSE, val |-> <<>>]
Some(u) == [some |-> TRUE, val |-> u]

Serving(size, unit) == [size |-> size, unit |-> unit]

\* Serving::default()
ServingDefault == Serving(One, None)

\* Mutant of SMul: the ingredient serving is not scaled by the portion.
SMul_Unscaled(s, rhs) == Serving(s.size, s.unit)

\* impl Mul<f32> for Serving: the size is scaled, the unit kept.
SMul(s, rhs) == Serving(FMul(s.size, rhs), s.unit)

-----------------------------------------------------------------------------
(* Food *)

SpecNutrients(n) == [tag |-> "Nutrients", n |-> n, list |-> <<>>]
SpecIngredients(l) == [tag |-> "Ingredients", n |-> NutrientsDefault, list |-> l]

Food(name, spec, servings) == [name |-> name, spec |-> spec, servings |-> servings]

Ingredient(key, s, f) == [key |-> key, serving |-> s, food |-> f]

\* str::starts_with: u starts with the pattern p (case-sensitive, "" matches all).
StartsWith(u, p) == Len(p) <= Len(u) /\ SubSeq(u, 1, Len(p)) = p

\* [T]::join(", ") on strings.
RECURSIVE Join(_)
Join(names) ==
    IF names = <<>> THEN <<>>
    ELSE IF Len(names) = 1 THEN names[1]
    ELSE names[1] \o <<",", " ">> \o Join(Tail(names))

\* self.servings.iter().filter(|(u, _)| u.starts_with(unit)): the entries of the
\* table s whose name starts with unit, in table order.
RECURSIVE Filter(_, _)
Filter(s, unit) ==
    IF s = <<>> THEN <<>>
    ELSE IF StartsWith(s[1][1], unit) THEN <<s[1]>> \o Filter(Tail(s), unit)
    ELSE Filter(Tail(s), unit)

\* Results of serve: Ok(nutrients) or Err(error).
NoErr == [kind |-> "none", unit |-> <<>>, list |-> <<>>, first |-> <<>>, next |-> <<>>]
Ok(n) == [ok |-> TRUE, val |-> n, err |-> NoErr]
Err(e) == [ok |-> FALSE, val |-> NutrientsDefault, err |-> e]

\* "Unknown serving unit {unit}, expected one of: {units.join(", ")}"
ErrUnknown(unit, units) ==
    [kind |-> "unknown", unit |-> unit, list |-> Join(units), first |-> <<>>, next |-> <<>>]

\* "Serving unit '{unit}' ambiguous between '{first}' and '{next}'"
ErrAmbiguous(unit, first, next) ==
    [kind |-> "ambiguous", unit |-> unit, list |-> <<>>, first |-> first, next |-> next]

\* Mutant of UnitNames: the names are listed last to first.
UnitNames_Reversed(servings) ==
    [i \in 1..Len(servings) |-> servings[Len(servings) + 1 - i][1]]

\* The names of a servings table, in table order.
UnitNames(servings) == [i \in 1..Len(servings) |-> servings[i][1]]

\* Mutant of Portion: the size is multiplied by the size per serving.
Portion_Multiplies(f, s) ==
    IF s.unit.some
    THEN LET matched == Filter(f.servings, s.unit.val)
         IN  IF matched = <<>>
             THEN [ok |-> FALSE, val |-> Zero,
                   err |-> ErrUnknown(s.unit.val, UnitNames(f.servings))]
             ELSE IF Len(matched) >= 2
             THEN [ok |-> FALSE, val |-> Zero,
                   err |-> ErrAmbiguous(s.unit.val, matched[1][1], matched[2][1])]
             ELSE [ok |-> TRUE, val |-> FMul(s.size, matched[1][2]), err |-> NoErr]
    ELSE [ok |-> TRUE, val |-> s.size, err |-> NoErr]

\* Mutant of Portion: the first matching entry wins, ambiguity is not detected.
Portion_FirstMatchWins(f, s) ==
    IF s.unit.some
    THEN LET matched == Filter(f.servings, s.unit.val)
         IN  IF matched = <<>>
             THEN [ok |-> FALSE, val |-> Zero,
                   err |-> ErrUnknown(s.unit.val, UnitNames(f.servings))]
             ELSE [ok |-> TRUE, val |-> FDiv(s.size, matched[1][2]), err |-> NoErr]
    ELSE [ok |-> TRUE, val |-> s.size, err |-> NoErr]

\* Mutant of Portion: without a unit the portion is one serving whatever the
\* size.
Portion_NoUnitIsOne(f, s) ==
    IF s.unit.some
    THEN LET matched == Filter(f.servings, s.unit.val)
         IN  IF matched = <<>>
             THEN [ok |-> FALSE, val |-> Zero,
                   err |-> ErrUnknown(s.unit.val, UnitNames(f.servings))]
             ELSE IF Len(matched) >= 2
             THEN [ok |-> FALSE, val |-> Zero,
                   err |-> ErrAmbiguous(s.unit.val, matched[1][1], matched[2][1])]
             ELSE [ok |-> TRUE, val |-> FDiv(s.size, matched[1][2]), err |-> NoErr]
    ELSE [ok |-> TRUE, val |-> One, err |-> NoErr]

\* Mutant of Portion: an entry whose name is the requested unit wins over
\* the entries that only start with it.
Portion_ExactNameWins(f, s) ==
    IF s.unit.some
    THEN LET exact == SelectSeq(f.servings, LAMBDA e : e[1] = s.unit.val)
             matched == IF exact # <<>> THEN <<exact[1]>> ELSE Filter(f.servings, s.unit.val)
         IN  IF matched = <<>>
             THEN [ok |-> FALSE, val |-> Zero,
                   err |-> ErrUnknown(s.unit.val, UnitNames(f.servings))]
             ELSE IF Len(matched) >= 2
             THEN [ok |-> FALSE, val |-> Zero,
                   err |-> ErrAmbiguous(s.unit.val, matched[1][1], matched[2][1])]
             ELSE [ok |-> TRUE, val |-> FDiv(s.size, matched[1][2]), err |-> NoErr]
    ELSE [ok |-> TRUE, val |-> s.size, err |-> NoErr]

\* The first half of Food::serve: the portion, or the unit-resolution error.
\* Returned as [ok, val (the portion), err].
Portion(f, s) ==
    IF s.unit.some
    THEN LET matched == Filter(f.servings, s.unit.val)
         IN  IF matched = <<>>
             THEN [ok |-> FALSE, val |-> Zero,
                   err |-> ErrUnknown(s.unit.val, UnitNames(f.servings))]
             ELSE IF Len(matched) >= 2
             THEN [ok |-> FALSE, val |-> Zero,
                   err |-> ErrAmbiguous(s.unit.val, matched[1][1], matched[2][1])]
             ELSE [ok |-> TRUE, val |-> FDiv(s.size, matched[1][2]), err |-> NoErr]
    ELSE [ok |-> TRUE, val |-> s.size, err |-> NoErr]

\* Food::serve.  ServeIngredients is the `for i in ingredients` loop from
\* index i on, with the running total res; `?` returns the first error.
RECURSIVE serve(_, _), ServeIngredients(_, _, _, _), ServeIngredients_SkipsErrors(_, _, _, _)
\* Mutant of ServeIngredients: an ingredient that fails is left out of the total.
ServeIngredients_SkipsErrors(ingredients, portion, i, res) ==
    IF i > Len(ingredients) THEN Ok(res)
    ELSE LET r == serve(ingredients[i].food, SMul(ingredients[i].serving, portion))
         IN  ServeIngredients_SkipsErrors(ingredients, portion, i + 1,
                                          IF r.ok THEN NAdd(res, r.val) ELSE res)

serve(f, s) ==
    LET p == Portion(f, s)
    IN  IF ~p.ok THEN Err(p.err)
        ELSE IF f.spec.tag = "Nutrients" THEN Ok(NMul(f.spec.n, p.val))
        ELSE ServeIngredients(f.spec.list, p.val, 1, NutrientsDefault)

ServeIngredients(ingredients, portion, i, res) ==
    IF i > Len(ingredients) THEN Ok(res)
    ELSE LET r == serve(ingredients[i].food, SMul(ingredients[i].serving, portion))
         IN  IF ~r.ok THEN r
             ELSE ServeIngredients(ingredients, portion, i + 1, NAdd(res, r.val))

-----------------------------------------------------------------------------
(* Inputs of serve *)

\* Longest servings table, longest ingredient list and deepest nesting of
\* ingredient-defined foods that the inputs hold.
MaxUnits == 3
MaxIngredients == 2
MaxDepth == 2

SeqsUpTo(S, n) == UNION {[1..k -> S] : k \in 0..n}

U_c == <<"c">>
U_cu == <<"c", "u">>
U_g == <<"g">>

\* Unit names a table may define: "c" is a prefix of "cu".
TableUnits == {U_c, U_cu, U_g}
\* Sizes of a table entry; 0 makes the division yield inf or NaN.
TableSizes == {Num(2, 1), Zero}
TableEntries == {<<u, z>> : u \in TableUnits, z \in TableSizes}

\* Units a caller may ask for: none, the empty string, abbreviations, full
\* names, and names no table defines.
RequestUnits ==
    {None, Some(<<>>), Some(U_c), Some(U_cu), Some(U_g), Some(<<"x">>),
     Some(<<"c", "u", "p">>)}
RequestSizes == {Zero, Num(1, 2), Num(3, 1)}
Requests == {Serving(z, u) : z \in RequestSizes, u \in RequestUnits}

NutrientChoices ==
    {Nutrients(Num(12, 1), Num(3, 1), Num(8, 1), Num(120, 1)),
     Nutrients(Num(1, 2), Zero, Num(7, 10), Num(5, 1))}

\* Every leaf food over the tables of at most MaxUnits entries.
LeafFoods ==
    {Food(<<>>, SpecNutrients(n), t) :
        n \in NutrientChoices, t \in SeqsUpTo(TableEntries, MaxUnits)}

\* Foods that appear as ingredients.  Three leaves: one with two distinct
\* units, one with no table, one whose units collide on the prefix "c".
Oats == Food(<<"o">>, SpecNutrients(Nutrients(Num(12, 1), Num(3, 1), Num(8, 1), Num(120, 1))),
             <<<<U_g, Num(2, 1)>>, <<U_cu, Num(1, 2)>>>>)
Plain == Food(<<"p">>, SpecNutrients(Nutrients(Num(1, 2), Zero, Num(7, 10), Num(5, 1))), <<>>)
Clash == Food(<<"k">>, SpecNutrients(Nutrients(One, One, One, Num(17, 1))),
              <<<<U_c, Num(2, 1)>>, <<U_cu, Num(1, 2)>>>>)

\* Ingredients that are leaves: one resolved through an abbreviated unit, one
\* with no unit, one with a unit its food does not define, one ambiguous.
LeafIngredients ==
    {Ingredient(Oats.name, Serving(Num(3, 1), Some(U_c)), Oats),
     Ingredient(Plain.name, Serving(Num(1, 2), None), Plain),
     Ingredient(Plain.name, Serving(One, Some(U_g)), Plain),
     Ingredient(Clash.name, Serving(Num(2, 1), Some(U_c)), Clash)}

\* A food whose only ingredient is i; one serving of it is 2 g.
Wrap(i) == Food(<<"w">>, SpecIngredients(<<i>>), <<<<U_g, Num(2, 1)>>>>)

\* The servings in which a nesting food holds ingredient i: a leaf twice
\* over or by weight, a nested food by weight.
WrapServings(i) ==
    IF i.food.spec.tag = "Nutrients"
    THEN {Serving(Num(2, 1), None), Serving(One, Some(U_g))}
    ELSE {Serving(One, Some(U_g))}

\* The ingredients whose food nests at most depth - 1 levels of ingredients.
RECURSIVE Ingredients(_)
Ingredients(depth) ==
    IF depth <= 1 THEN LeafIngredients
    ELSE LeafIngredients \cup
         {Ingredient(<<"w">>, s[2], Wrap(s[1])) :
             s \in UNION {{<<i, w>> : w \in WrapServings(i)} : i \in Ingredients(depth - 1)}}

\* One serving of an ingredient-defined food is 2 g or half a "cu".
CompositeTable == <<<<U_g, Num(2, 1)>>, <<U_cu, Num(1, 2)>>>>

\* Foods defined by at most MaxIngredients ingredients, nested MaxDepth deep.
CompositeFoods ==
    {Food(<<>>, SpecIngredients(l), CompositeTable) :
        l \in SeqsUpTo(Ingredients(MaxDepth), MaxIngredients)}

CompositeRequests ==
    {Serving(z, u) : z \in {Zero, One, Num(3, 1)},
                     u \in {None, Some(U_g), Some(<<"x">>)}}

\* The Database variables of a behaviour that only calls serve.
NoFs == [food |-> <<>>, dirs |-> {}, journal |-> <<>>]
NoCall == [op |-> "none"]
NoInput == [src |-> <<>>, resolver |-> <<>>]

NoResult == [ok |-> FALSE, val |-> NutrientsDefault,
             err |-> [kind |-> "pending", unit |-> <<>>, list |-> <<>>,
                      first |-> <<>>, next |-> <<>>]]

-----------------------------------------------------------------------------
(* serve as a state machine: a caller holds a food and a serving, calls    *)
(* serve once and keeps the result.                                        *)

InitServe ==
    /\ mode = "serve"
    /\ \/ food \in LeafFoods /\ serving \in Requests
       \/ food \in CompositeFoods /\ serving \in CompositeRequests
    /\ result = NoResult
    /\ pc = "call"
    /\ fs = NoFs
    /\ last = NoCall
    /\ input = NoInput

ServeCall ==
    /\ mode = "serve"
    /\ pc = "call"
    /\ result' = serve(food, serving)
    /\ pc' = "done"
    /\ UNCHANGED <<input, mode, food, serving, fs, last>>

NextServe == ServeCall

SpecServe == InitServe /\ [][NextServe]_vars

-----------------------------------------------------------------------------
(* Claims about serve *)

Done == mode = "serve" /\ pc = "done"
IsLeaf(f) == f.spec.tag = "Nutrients"

\* The indices of the table entries whose name starts with u.
MatchIdx(f, u) == {i \in 1..Len(f.servings) : StartsWith(f.servings[i][1], u)}

Min(S) == CHOOSE x \in S : \A y \in S : x <= y

\* C1: with no unit the portion is the serving size whatever the servings
\* table holds, and a leaf food with nutrients n yields n scaled by the size
\* in each of carb, fat, protein and kcal.
C1_NoUnitPortionIsSize ==
    (Done /\ ~serving.unit.some /\ IsLeaf(food)) =>
        /\ result.ok
        /\ result.val.carb = FMul(food.spec.n.carb, serving.size)
        /\ result.val.fat = FMul(food.spec.n.fat, serving.size)
        /\ result.val.protein = FMul(food.spec.n.protein, serving.size)
        /\ result.val.kcal = FMul(food.spec.n.kcal, serving.size)

\* A leaf with a three-entry table served 3 servings with no unit.
C1_Witness ==
    /\ Done /\ ~serving.unit.some /\ IsLeaf(food)
    /\ Len(food.servings) = 3
    /\ serving.size = Num(3, 1)
    /\ food.spec.n.carb = Num(12, 1)
    /\ result.ok /\ result.val.carb = Num(36, 1) /\ result.val.kcal = Num(360, 1)

\* C2: when exactly one table entry (name, size_per_serving) has a name that
\* starts with the requested unit, the portion is size / size_per_serving:
\* the call returns what a unit-less call with that portion returns (for a
\* leaf, n scaled by it), and what a call with the unit's full name returns.
C2_UniquePrefixPortion ==
    (Done /\ serving.unit.some /\ Cardinality(MatchIdx(food, serving.unit.val)) = 1) =>
        LET i == Min(MatchIdx(food, serving.unit.val))
            p == FDiv(serving.size, food.servings[i][2])
        IN  /\ result = serve(food, Serving(p, None))
            /\ IsLeaf(food) => result = Ok(NMul(food.spec.n, p))
            /\ result = serve(food, Serving(serving.size, Some(food.servings[i][1])))

\* "c" asked of a table that defines "g" and "cu": 3 c is 3 / 2 servings.
C2_Witness ==
    /\ Done /\ IsLeaf(food)
    /\ serving = Serving(Num(3, 1), Some(U_c))
    /\ food.servings = <<<<U_g, Zero>>, <<U_cu, Num(2, 1)>>>>
    /\ food.spec.n.carb = Num(12, 1)
    /\ result.ok /\ result.val.carb = Num(18, 1)

\* C3: when no unit name of the table starts with the requested unit, serve
\* fails with the unknown-serving-unit error, which lists every unit name of
\* the food in table order, and returns no nutrients.
C3_UnknownUnit ==
    (Done /\ serving.unit.some /\ MatchIdx(food, serving.unit.val) = {}) =>
        /\ ~result.ok
        /\ result.err.kind = "unknown"
        /\ result.err.unit = serving.unit.val
        /\ result.err.list = Join([i \in 1..Len(food.servings) |-> food.servings[i][1]])

\* "x" asked of a food that defines "cu", "g", "c": the error lists "cu, g, c".
C3_Witness ==
    /\ Done /\ serving.unit = Some(<<"x">>)
    /\ Len(food.servings) = 3
    /\ food.servings[1][1] = U_cu /\ food.servings[2][1] = U_g /\ food.servings[3][1] = U_c
    /\ ~result.ok /\ result.err.kind = "unknown"
    /\ result.err.list = <<"c", "u", ",", " ", "g", ",", " ", "c">>

\* C4: when two or more unit names start with the requested unit, serve fails
\* with the ambiguous-serving-unit error naming the first two matching units
\* in table order; it never returns nutrients computed from one of them.
C4_AmbiguousUnit ==
    (Done /\ serving.unit.some /\ Cardinality(MatchIdx(food, serving.unit.val)) >= 2) =>
        LET m == MatchIdx(food, serving.unit.val)
            i == Min(m)
            j == Min(m \ {i})
        IN  /\ ~result.ok
            /\ result.err.kind = "ambiguous"
            /\ result.err.unit = serving.unit.val
            /\ result.err.first = food.servings[i][1]
            /\ result.err.next = food.servings[j][1]

\* Three entries match "c": "g" is skipped, "cu" and "c" are named, the
\* third match is not.
C4_Witness ==
    /\ Done /\ serving.unit = Some(U_c)
    /\ Len(food.servings) = 3
    /\ food.servings[1][1] = U_cu /\ food.servings[2][1] = U_c /\ food.servings[3][1] = U_cu
    /\ ~result.ok /\ result.err.first = U_cu /\ result.err.next = U_c

\* The portion the requested serving resolves to (defined when the unit is
\* absent or matches exactly one entry).
ResolvedPortion(f, s) ==
    IF s.unit.some
    THEN FDiv(s.size, f.servings[Min(MatchIdx(f, s.unit.val))][2])
    ELSE s.size
Resolves(f, s) == s.unit.some => Cardinality(MatchIdx(f, s.unit.val)) = 1

\* What ingredient i of f yields when f is served with portion p.
IngredientServe(f, i, p) ==
    serve(f.spec.list[i].food,
          Serving(FMul(f.spec.list[i].serving.size, p), f.spec.list[i].serving.unit))

RECURSIVE SumTo(_, _, _)
SumTo(f, p, k) ==
    IF k = 0 THEN NutrientsDefault
    ELSE NAdd(SumTo(f, p, k - 1), IngredientServe(f, k, p).val)

\* C5: for a food defined by ingredients and a request that resolves to the
\* portion p against the food's own table, serve returns the component-wise
\* sum over the ingredients of ingredient.food.serve of the ingredient's
\* serving scaled by p (unit kept, resolved against the ingredient food's
\* table); with the default serving and two ingredients A, B this is
\* serve(A.food, sA) + serve(B.food, sB).
C5_IngredientSum ==
    (/\ Done /\ ~IsLeaf(food) /\ Resolves(food, serving)
     /\ \A i \in 1..Len(food.spec.list) :
            IngredientServe(food, i, ResolvedPortion(food, serving)).ok) =>
        /\ result = Ok(SumTo(food, ResolvedPortion(food, serving), Len(food.spec.list)))
        /\ (serving = ServingDefault /\ Len(food.spec.list) = 2) =>
              result.val = NAdd(serve(food.spec.list[1].food, food.spec.list[1].serving).val,
                                serve(food.spec.list[2].food, food.spec.list[2].serving).val)

\* 3 g of a food (2 g per serving) made of 3 c of oats and of a nested food:
\* both ingredients are scaled by 3 / 2 and summed.
C5_Witness ==
    /\ Done /\ ~IsLeaf(food)
    /\ serving = Serving(Num(3, 1), Some(U_g))
    /\ Len(food.spec.list) = 2
    /\ food.spec.list[1] = Ingredient(Oats.name, Serving(Num(3, 1), Some(U_c)), Oats)
    /\ ~IsLeaf(food.spec.list[2].food)
    /\ result.ok
    /\ result.val.carb # FMul(Num(12, 1), Num(9, 1))
    /\ IsFinite(result.val.carb)

\* The unit-resolution errors met when serving s of f: the food's own, or,
\* when its portion resolves, those of its ingredients at any depth.
RECURSIVE UnitErrors(_, _)
UnitErrors(f, s) ==
    IF ~Resolves(f, s)
    THEN {IF MatchIdx(f, s.unit.val) = {} THEN "unknown" ELSE "ambiguous"}
    ELSE IF IsLeaf(f) THEN {}
    ELSE UNION {UnitErrors(f.spec.list[i].food,
                           Serving(FMul(f.spec.list[i].serving.size, ResolvedPortion(f, s)),
                                   f.spec.list[i].serving.unit)) :
                    i \in 1..Len(f.spec.list)}

\* C6: if unit resolution fails for the requested serving or for an
\* ingredient serving at any depth, serve returns such an error and no nutrient
\* total, also when the other ingredients resolve and when the portion is 0;
\* and it fails only then.
C6_ErrorPropagates ==
    Done =>
        /\ (UnitErrors(food, serving) # {}) =>
              (~result.ok /\ result.val = NutrientsDefault
                /\ result.err.kind \in UnitErrors(food, serving))
        /\ (UnitErrors(food, serving) = {}) => result.ok

\* Portion 0 of a food whose first ingredient resolves and whose second nests
\* an ingredient with an unknown unit.
C6_Witness ==
    /\ Done /\ ~IsLeaf(food)
    /\ serving = Serving(Zero, None)
    /\ Len(food.spec.list) = 2
    /\ serve(food.spec.list[1].food, food.spec.list[1].serving).ok
    /\ ~IsLeaf(food.spec.list[2].food)
    /\ Portion(food.spec.list[2].food, food.spec.list[2].serving).ok
    /\ ~result.ok /\ result.err.kind = "unknown"

\* Positive scalars a serving size is multiplied by.
Scalars == {Num(1, 2), Num(3, 1)}

\* The call with the size of the serving multiplied by k.
ScaledServe(k) == serve(food, Serving(FMul(serving.size, k), serving.unit))

-----------------------------------------------------------------------------
(* Text: str and f32 <-> text conversions used by the file formats.        *)
(* A file's content is modelled as the sequence of its lines               *)
(* (str::lines), a line as a sequence of characters.  Characters outside   *)
(* digits, '.', ' ', ':', '=' are letters; the letters of "inf", "nan" and *)
(* exponents, and signs, do not occur in the model's numeric fields.       *)

Digits == <<"0", "1", "2", "3", "4", "5", "6", "7", "8", "9">>

\* char::is_digit(10)
IsDigit(c) == \E i \in 1..10 : Digits[i] = c
DigitVal(c) == (CHOOSE i \in 1..10 : Digits[i] = c) - 1

\* char::is_whitespace, for the one whitespace character of the model.
IsSpace(c) == c = " "

\* str::trim_start, str::trim_end, str::trim
RECURSIVE TrimStart(_)
TrimStart(s) == IF s # <<>> /\ IsSpace(Head(s)) THEN TrimStart(Tail(s)) ELSE s
RECURSIVE TrimEnd(_)
TrimEnd(s) ==
    IF s # <<>> /\ IsSpace(s[Len(s)]) THEN TrimEnd(SubSeq(s, 1, Len(s) - 1)) ELSE s
Trim(s) == TrimEnd(TrimStart(s))

SplitResult(found, before, after) == [found |-> found, before |-> before, after |-> after]

\* str::split_once(c): around the first occurrence of c.
SplitOnce(s, c) ==
    LET hits == {i \in 1..Len(s) : s[i] = c}
    IN  IF hits = {} THEN SplitResult(FALSE, <<>>, <<>>)
        ELSE LET i == CHOOSE x \in hits : \A y \in hits : x <= y
             IN  SplitResult(TRUE, SubSeq(s, 1, i - 1), SubSeq(s, i + 1, Len(s)))

\* str::rsplit_once(c): around the last occurrence of c.
RSplitOnce(s, c) ==
    LET hits == {i \in 1..Len(s) : s[i] = c}
    IN  IF hits = {} THEN SplitResult(FALSE, <<>>, <<>>)
        ELSE LET i == CHOOSE x \in hits : \A y \in hits : x >= y
             IN  SplitResult(TRUE, SubSeq(s, 1, i - 1), SubSeq(s, i + 1, Len(s)))

\* s.find(|c: char| c != '.' && !c.is_digit(10)): the index (from 1) of the
\* first character that is neither '.' nor a digit, 0 for None.
FindNonNumeric(s) ==
    LET hits == {i \in 1..Len(s) : s[i] # "." /\ ~IsDigit(s[i])}
    IN  IF hits = {} THEN 0 ELSE CHOOSE x \in hits : \A y \in hits : x <= y

RECURSIVE Pow10(_)
Pow10(k) == IF k = 0 THEN 1 ELSE 10 * Pow10(k - 1)

\* The value of a string of digits, 0 for the empty string.
RECURSIVE DigitsVal(_)
DigitsVal(s) ==
    IF s = <<>> THEN 0 ELSE 10 * DigitsVal(SubSeq(s, 1, Len(s) - 1)) + DigitVal(s[Len(s)])

\* str::parse::<f32> on text made of digits and '.': at least one digit and
\* at most one '.'; any other character is a ParseFloatError.
ParseF32(s) ==
    LET dots == {i \in 1..Len(s) : s[i] = "."}
        digits == {i \in 1..Len(s) : IsDigit(s[i])}
    IN  IF digits = {} \/ Cardinality(dots) > 1 \/ Cardinality(dots) + Cardinality(digits) # Len(s)
        THEN [ok |-> FALSE, val |-> Zero]
        ELSE IF dots = {} THEN [ok |-> TRUE, val |-> Num(DigitsVal(s), 1)]
        ELSE LET d == CHOOSE i \in dots : TRUE
                 int == SubSeq(s, 1, d - 1)
                 frac == SubSeq(s, d + 1, Len(s))
             IN  [ok |-> TRUE,
                  val |-> Num(DigitsVal(int) * Pow10(Len(frac)) + DigitsVal(frac),
                              Pow10(Len(frac)))]

\* The decimal digits of a natural number.
RECURSIVE IntDigits(_)
IntDigits(n) ==
    IF n < 10 THEN <<Digits[n + 1]>> ELSE IntDigits(n \div 10) \o <<Digits[(n % 10) + 1]>>

\* The digits after the point of r / d (r < d), for a terminating expansion.
RECURSIVE FracDigits(_, _)
FracDigits(r, d) ==
    IF r = 0 THEN <<>>
    ELSE <<Digits[((r * 10) \div d) + 1]>> \o FracDigits((r * 10) % d, d)

\* impl Display for f32: "3", "0.5", "inf", "NaN".  Exact for the values of
\* the model, whose decimal expansions terminate.
FormatF32(x) ==
    IF x.d = 0
    THEN (IF x.n = 0 THEN <<"N", "a", "N">>
          ELSE IF x.n > 0 THEN <<"i", "n", "f">> ELSE <<"-", "i", "n", "f">>)
    ELSE LET a == Abs(x.n)
             sign == IF x.n < 0 THEN <<"-">> ELSE <<>>
             frac == FracDigits(a % x.d, x.d)
         IN  sign \o IntDigits(a \div x.d) \o (IF frac = <<>> THEN <<>> ELSE <<".">> \o frac)

-----------------------------------------------------------------------------
(* The Database of lib.rs: text files under <root>/food and                *)
(* <root>/journal/YYYY/MM.                                                  *)

S_name == <<"n", "a", "m", "e">>
S_carb == <<"c", "a", "r", "b">>
S_fat == <<"f", "a", "t">>
S_protein == <<"p", "r", "o", "t", "e", "i", "n">>
S_kcal == <<"k", "c", "a", "l">>
S_serving == <<"s", "e", "r", "v", "i", "n", "g">>
S_txt == <<"t", "x", "t">>
S_toml == <<"t", "o", "m", "l">>

\* lib.rs Food: a name, the nutrients of one serving and the servings table.
LibFood(name, n, servings) == [name |-> name, nutrients |-> n, servings |-> servings]
LibFoodDefault == LibFood(<<>>, NutrientsDefault, <<>>)

\* What a load returns: Ok(Some(v)), Ok(None) or Err.
LoadSome(v) == [ok |-> TRUE, some |-> TRUE, val |-> v]
LoadNone == [ok |-> TRUE, some |-> FALSE, val |-> <<>>]
LoadErr == [ok |-> FALSE, some |-> FALSE, val |-> <<>>]

\* A directory entry: no file, a readable file with its lines, or a file
\* that cannot be opened (permission denied).
Absent == [kind |-> "absent", text |-> <<>>]
File(text) == [kind |-> "file", text |-> text]
Denied == [kind |-> "denied", text |-> <<>>]

\* Path::file_stem of a file name that is neither "." nor "..": the name up
\* to its last '.', the whole name when it has none or only a leading one.
FileStem(name) ==
    LET dots == {i \in 1..Len(name) : name[i] = "."}
    IN  IF dots = {} THEN name
        ELSE LET i == CHOOSE x \in dots : \A y \in dots : x >= y
             IN  IF i = 1 THEN name ELSE SubSeq(name, 1, i - 1)

\* Path::with_extension on the last component: an existing extension is replaced.
WithExtension(name, ext) == FileStem(name) \o <<".">> \o ext

\* self.food_dir.join(key).with_extension(ext), as the file name in food_dir.
FoodPath(key, ext) == WithExtension(key, ext)

\* format!("{:0w$}", n) for n >= 0: at least w digits, zero-padded.
PadZero(n, w) ==
    LET d == IntDigits(n)
    IN  [i \in 1..(IF Len(d) >= w THEN 0 ELSE w - Len(d)) |-> "0"] \o d

\* Database::journal_path: <<YYYY, MM, DD.txt>> under journal_dir.
journal_path(date) ==
    <<PadZero(date.y, 4), PadZero(date.m, 2), WithExtension(PadZero(date.d, 2), S_txt)>>

\* impl Display for Serving (lib.rs): "{size} {unit}" or "{size}".
ServingToString(s) ==
    IF s.unit.some THEN FormatF32(s.size) \o <<" ">> \o s.unit.val ELSE FormatF32(s.size)

ParseOk(v) == [ok |-> TRUE, val |-> v]
ParseErr == [ok |-> FALSE, val |-> ServingDefault]

\* impl FromStr for Serving (lib.rs): the text is not trimmed before the
\* size is split off.
LibServingFromStr(s) ==
    LET idx == FindNonNumeric(s)
        size == IF idx = 0 THEN s ELSE Trim(SubSeq(s, 1, idx - 1))
        unit == IF idx = 0 THEN None ELSE Some(Trim(SubSeq(s, idx, Len(s))))
        num == ParseF32(size)
    IN  IF num.ok THEN ParseOk(Serving(num.val, unit)) ELSE ParseErr

\* The lines Database::save_food writes.
SaveFoodText(f) ==
    << S_name \o <<":", " ">> \o f.name,
       S_carb \o <<":", " ">> \o FormatF32(f.nutrients.carb),
       S_fat \o <<":", " ">> \o FormatF32(f.nutrients.fat),
       S_protein \o <<":", " ">> \o FormatF32(f.nutrients.protein),
       S_kcal \o <<":", " ">> \o FormatF32(f.nutrients.kcal) >>
    \o [i \in 1..Len(f.servings) |->
          S_serving \o <<":", " ">> \o FormatF32(f.servings[i][2]) \o <<" ">> \o f.servings[i][1]]

\* One line of Database::load_food applied to the food read so far:
\* [ok, val].
LoadFoodLine(f, line) ==
    LET kv == RSplitOnce(line, ":")
        k == Trim(kv.before)
        v == Trim(kv.after)
        num == ParseF32(v)
        idx == FindNonNumeric(v)
        size == ParseF32(Trim(SubSeq(v, 1, idx - 1)))
        unit == Trim(SubSeq(v, idx, Len(v)))
    IN  IF ~kv.found THEN [ok |-> FALSE, val |-> f]
        ELSE IF k = S_name THEN [ok |-> TRUE, val |-> [f EXCEPT !.name = v]]
        ELSE IF k = S_kcal
        THEN [ok |-> num.ok, val |-> [f EXCEPT !.nutrients.kcal = num.val]]
        ELSE IF k = S_carb
        THEN [ok |-> num.ok, val |-> [f EXCEPT !.nutrients.carb = num.val]]
        ELSE IF k = S_fat
        THEN [ok |-> num.ok, val |-> [f EXCEPT !.nutrients.fat = num.val]]
        ELSE IF k = S_protein
        THEN [ok |-> num.ok, val |-> [f EXCEPT !.nutrients.protein = num.val]]
        ELSE IF k = S_serving
        THEN (IF idx = 0 \/ ~size.ok THEN [ok |-> FALSE, val |-> f]
              ELSE [ok |-> TRUE,
                    val |-> [f EXCEPT !.servings = Append(@, <<unit, size.val>>)]])
        ELSE [ok |-> FALSE, val |-> f]

\* The `for line in content.lines()` loop of load_food from line i on.
RECURSIVE LoadFoodLines(_, _, _)
LoadFoodLines(lines, i, f) ==
    IF i > Len(lines) THEN LoadSome(f)
    ELSE LET r == LoadFoodLine(f, lines[i])
         IN  IF ~r.ok THEN LoadErr ELSE LoadFoodLines(lines, i + 1, r.val)

\* Database::load_food on the directory entry at the key's path.
load_food(files, key) ==
    LET p == FoodPath(key, S_txt)
        e == IF p \in DOMAIN files THEN files[p] ELSE Absent
    IN  IF e.kind = "absent" THEN LoadNone
        ELSE IF e.kind = "denied" THEN LoadErr
        ELSE LoadFoodLines(e.text, 1, LibFoodDefault)

\* The lines Database::save_journal writes.
SaveJournalText(j) ==
    [i \in 1..Len(j) |-> j[i][1] \o <<":", " ">> \o ServingToString(j[i][2])]

\* The `for line in content.lines()` loop of load_journal from line i on.
RECURSIVE LoadJournalLines(_, _, _)
LoadJournalLines(lines, i, rows) ==
    IF i > Len(lines) THEN LoadSome(rows)
    ELSE LET kv == SplitOnce(lines[i], ":")
             sv == LibServingFromStr(kv.after)
         IN  IF ~kv.found
             THEN LoadJournalLines(lines, i + 1, Append(rows, <<Trim(lines[i]), ServingDefault>>))
             ELSE IF ~sv.ok THEN LoadErr
             ELSE LoadJournalLines(lines, i + 1, Append(rows, <<Trim(kv.before), sv.val>>))

\* Mutant of load_journal: a file that cannot be opened counts as no file.
load_journal_OpenErrorIsNone(dirs, files, date) ==
    LET p == journal_path(date)
        e == files[p]
    IN  IF <<p[1], p[2]>> \notin dirs \/ e.kind # "file" THEN LoadNone
        ELSE LoadJournalLines(e.text, 1, <<>>)

\* Database::load_journal: NotFound (no file, or no directory for the month)
\* is Ok(None).
load_journal(dirs, files, date) ==
    LET p == journal_path(date)
        e == files[p]
    IN  IF <<p[1], p[2]>> \notin dirs \/ e.kind = "absent" THEN LoadNone
        ELSE IF e.kind = "denied" THEN LoadErr
        ELSE LoadJournalLines(e.text, 1, <<>>)

\* toml::to_string_pretty(food), which Database::write stores: the fields as
\* key = value lines (the crate's exact layout is not modelled).
TomlText(f) ==
    << S_name \o <<" ", "=", " ">> \o f.name,
       S_carb \o <<" ", "=", " ">> \o FormatF32(f.nutrients.carb),
       S_fat \o <<" ", "=", " ">> \o FormatF32(f.nutrients.fat),
       S_protein \o <<" ", "=", " ">> \o FormatF32(f.nutrients.protein),
       S_kcal \o <<" ", "=", " ">> \o FormatF32(f.nutrients.kcal) >>

-----------------------------------------------------------------------------
(* The keys, values and hand-written files of the Database behaviours *)

\* Food keys: "a", "b" and "a.b".
FoodKeys == {<<"a">>, <<"b">>, <<"a", ".", "b">>}
FoodFileNames == {FoodPath(k, e) : k \in FoodKeys, e \in {S_txt, S_toml}}

FoodValues ==
    {LibFood(<<"O", "a", "t", "s">>,
             Nutrients(Num(12, 1), Num(3, 1), Num(8, 1), Num(120, 1)),
             <<<<U_g, Num(2, 1)>>, <<U_cu, Num(1, 2)>>>>),
     LibFood(<<"P">>, Nutrients(Num(1, 2), Zero, Num(7, 10), Num(5, 1)), <<>>)}

\* Files a user may leave in the food directory: an empty file, a line with
\* no ':', a value that is no number.
EditedFoodTexts ==
    {<<>>, <<<<"x">>>>, <<S_kcal \o <<":", " ", "x">>>>}

Date(y, m, d) == [y |-> y, m |-> m, d |-> d]
Dates == {Date(2024, 7, 1), Date(2024, 7, 8), Date(2023, 12, 31)}
JournalDirs == {<<journal_path(d)[1], journal_path(d)[2]>> : d \in Dates}
JournalPaths == {journal_path(d) : d \in Dates}

\* lib.rs Journal: a list of (food key, serving).
JournalValues ==
    {<<>>,
     <<<<<<"a">>, Serving(One, None)>>>>,
     <<<<<<"a">>, Serving(Num(3, 1), Some(U_c))>>, <<<<"b">>, Serving(Num(1, 2), None)>>>>}

\* Journal files a user may write: a key alone, "key:serving" with no blank,
\* a serving that is no number.
EditedJournalTexts ==
    {<<<<"a">>>>, <<<<"a", ":", "1", ".", "5", "c">>>>, <<<<"a", ":", "x">>>>}

Call(op, key, arg, res) == [op |-> op, key |-> key, arg |-> arg, res |-> res]
CallOk == [ok |-> TRUE, some |-> FALSE, val |-> <<>>]

-----------------------------------------------------------------------------
(* Database behaviours.  Database::new has created food/, recipe/ and      *)
(* journal/ under an empty root.  Every action is one call of a Database   *)
(* method or of a main.rs handler, or one change a user makes to the       *)
(* files (the data files are meant to be edited by hand).                   *)

InitStore ==
    /\ mode \in {"food", "journal"}
    /\ food = Plain
    /\ serving = ServingDefault
    /\ result = NoResult
    /\ pc = "idle"
    /\ fs = [food |-> [n \in FoodFileNames |-> Absent],
             dirs |-> {},
             journal |-> [p \in JournalPaths |-> Absent]]
    /\ last = Call("new", <<>>, <<>>, CallOk)
    /\ input = NoInput

LoadFood(key) ==
    /\ mode = "food"
    /\ last' = Call("load_food", key, <<>>, load_food(fs.food, key))
    /\ UNCHANGED <<input, mode, food, serving, result, pc, fs>>

\* Database::save_food: File::create truncates or creates the file, and
\* fails on a file it may not open; the lines are written on return.
SaveFood(key, f) ==
    /\ mode \in {"food", "eat", "list"}
    /\ LET p == FoodPath(key, S_txt)
       IN  IF fs.food[p].kind = "denied"
           THEN /\ last' = Call("save_food", key, f, LoadErr)
                /\ fs' = fs
           ELSE /\ last' = Call("save_food", key, f, CallOk)
                /\ fs' = [fs EXCEPT !.food[p] = File(SaveFoodText(f))]
    /\ UNCHANGED <<input, mode, food, serving, result, pc>>

\* Database::remove_food: std::fs::remove_file on the key's .toml path.
RemoveFood(key) ==
    /\ mode = "food"
    /\ LET p == FoodPath(key, S_toml)
       IN  IF fs.food[p].kind = "absent"
           THEN /\ last' = Call("remove_food", key, <<>>, LoadErr)
                /\ fs' = fs
           ELSE /\ last' = Call("remove_food", key, <<>>, CallOk)
                /\ fs' = [fs EXCEPT !.food[p] = Absent]
    /\ UNCHANGED <<input, mode, food, serving, result, pc>>

\* Database::write_food: Database::write on the key's .toml path.
WriteFood(key, f) ==
    /\ mode \in {"food", "list"}
    /\ LET p == FoodPath(key, S_toml)
       IN  IF fs.food[p].kind = "denied"
           THEN /\ last' = Call("write_food", key, f, LoadErr)
                /\ fs' = fs
           ELSE /\ last' = Call("write_food", key, f, CallOk)
                /\ fs' = [fs EXCEPT !.food[p] = File(TomlText(f))]
    /\ UNCHANGED <<input, mode, food, serving, result, pc>>

\* A user writes a food file by hand.
UserEditsFood(key, text) ==
    /\ mode = "food"
    /\ fs.food[FoodPath(key, S_txt)].kind # "denied"
    /\ fs' = [fs EXCEPT !.food[FoodPath(key, S_txt)] = File(text)]
    /\ last' = Call("user", key, <<>>, CallOk)
    /\ UNCHANGED <<input, mode, food, serving, result, pc>>

\* A user takes away the permissions of a file.
UserLocksFood(name) ==
    /\ mode \in {"food", "list"}
    /\ fs.food[name].kind = "file"
    /\ fs' = [fs EXCEPT !.food[name] = Denied]
    /\ last' = Call("user", name, <<>>, CallOk)
    /\ UNCHANGED <<input, mode, food, serving, result, pc>>

LoadJournal(date) ==
    /\ mode \in {"journal", "eat"}
    /\ last' = Call("load_journal", date, <<>>, load_journal(fs.dirs, fs.journal, date))
    /\ UNCHANGED <<input, mode, food, serving, result, pc, fs>>

\* The effect of Database::save_journal on the files: [ok, fs].  File::create
\* fails when the month's directory is missing or the file may not be opened.
save_journal(f, date, j) ==
    LET p == journal_path(date)
    IN  IF <<p[1], p[2]>> \notin f.dirs \/ f.journal[p].kind = "denied"
        THEN [ok |-> FALSE, fs |-> f]
        ELSE [ok |-> TRUE, fs |-> [f EXCEPT !.journal[p] = File(SaveJournalText(j))]]

SaveJournal(date, j) ==
    /\ mode = "journal"
    /\ LET r == save_journal(fs, date, j)
       IN  /\ last' = Call("save_journal", date, j, IF r.ok THEN CallOk ELSE LoadErr)
           /\ fs' = r.fs
    /\ UNCHANGED <<input, mode, food, serving, result, pc>>

\* main.rs edit_journal: load the day's journal, an empty one when there is
\* none, and save it back.
EditJournal(date) ==
    /\ mode = "journal"
    /\ LET l == load_journal(fs.dirs, fs.journal, date)
           j == IF l.some THEN l.val ELSE <<>>
           r == save_journal(fs, date, j)
       IN  IF ~l.ok
           THEN /\ last' = Call("edit_journal", date, <<>>, LoadErr)
                /\ fs' = fs
           ELSE /\ last' = Call("edit_journal", date, j, IF r.ok THEN CallOk ELSE LoadErr)
                /\ fs' = r.fs
    /\ UNCHANGED <<input, mode, food, serving, result, pc>>

\* The fold of show_journal over the rows from row i on: every row adds
\* food.nutrients * 1.0 to the total.
RECURSIVE ShowTotal(_, _, _, _)
ShowTotal(files, j, i, total) ==
    IF i > Len(j) THEN total
    ELSE ShowTotal(files, j, i + 1,
                   NAdd(total, NMul(load_food(files, j[i][1]).val.nutrients, One)))

\* main.rs show_journal: load the day's journal, an empty one when there is
\* none, look up the food of every row and add up the total; of the table it
\* prints the total is kept.
ShowJournal(date) ==
    /\ mode \in {"journal", "eat"}
    /\ LET l == load_journal(fs.dirs, fs.journal, date)
           j == IF l.some THEN l.val ELSE <<>>
           rows == \A i \in 1..Len(j) : load_food(fs.food, j[i][1]).some
       IN  IF ~l.ok
           THEN last' = Call("show_journal", date, <<>>, LoadErr)
           ELSE last' = Call("show_journal", date, j,
                             IF rows THEN LoadSome(ShowTotal(fs.food, j, 1, NutrientsDefault))
                             ELSE LoadErr)
    /\ UNCHANGED <<input, mode, food, serving, result, pc, fs>>

\* A user creates the directories of a month.
UserMakesDir(dir) ==
    /\ mode \in {"journal", "eat"}
    /\ dir \notin fs.dirs
    /\ fs' = [fs EXCEPT !.dirs = @ \cup {dir}]
    /\ last' = Call("user", dir, <<>>, CallOk)
    /\ UNCHANGED <<input, mode, food, serving, result, pc>>

\* A user writes a journal file by hand.
UserEditsJournal(date, text) ==
    /\ mode \in {"journal", "eat"}
    /\ <<journal_path(date)[1], journal_path(date)[2]>> \in fs.dirs
    /\ fs.journal[journal_path(date)].kind # "denied"
    /\ fs' = [fs EXCEPT !.journal[journal_path(date)] = File(text)]
    /\ last' = Call("user", date, <<>>, CallOk)
    /\ UNCHANGED <<input, mode, food, serving, result, pc>>

UserLocksJournal(date) ==
    /\ mode = "journal"
    /\ fs.journal[journal_path(date)].kind = "file"
    /\ fs' = [fs EXCEPT !.journal[journal_path(date)] = Denied]
    /\ last' = Call("user", date, <<>>, CallOk)
    /\ UNCHANGED <<input, mode, food, serving, result, pc>>

NextStore ==
    \/ \E k \in FoodKeys : LoadFood(k)
    \/ \E k \in FoodKeys, f \in FoodValues : SaveFood(k, f)
    \/ \E k \in FoodKeys : RemoveFood(k)
    \/ \E k \in FoodKeys, f \in FoodValues : WriteFood(k, f)
    \/ \E k \in FoodKeys, t \in EditedFoodTexts : UserEditsFood(k, t)
    \/ \E n \in FoodFileNames : UserLocksFood(n)
    \/ \E d \in Dates : LoadJournal(d)
    \/ \E d \in Dates, j \in JournalValues : SaveJournal(d, j)
    \/ \E d \in Dates : EditJournal(d)
    \/ \E d \in Dates : ShowJournal(d)
    \/ \E d \in JournalDirs : UserMakesDir(d)
    \/ \E d \in Dates, t \in EditedJournalTexts : UserEditsJournal(d, t)
    \/ \E d \in Dates : UserLocksJournal(d)

SpecStore == InitStore /\ [][NextStore]_vars

-----------------------------------------------------------------------------
(* Claims about the Database *)

JournalDir(date) == <<journal_path(date)[1], journal_path(date)[2]>>

\* Every load of the other keys returns what it returned before the step.
OtherFoodsKept(key) ==
    \A k \in FoodKeys \ {key} : load_food(fs'.food, k) = load_food(fs.food, k)
OtherJournalsKept(date) ==
    \A d \in Dates \ {date} :
        load_journal(fs'.dirs, fs'.journal, d) = load_journal(fs.dirs, fs.journal, d)

\* C7: after a successful save(k, v), load(k) returns Some(v); after a
\* successful remove(k), load(k) returns None; before any save, load returns
\* None; a save or remove of another key, and a failed or read-only call,
\* leave what load(k) returns unchanged.  For foods and for journals.
C7_StoreConsistency ==
    [][/\ (last'.op = "save_food" /\ last'.res.ok) =>
            /\ load_food(fs'.food, last'.key) = LoadSome(last'.arg)
            /\ OtherFoodsKept(last'.key)
       /\ (last'.op = "remove_food" /\ last'.res.ok) =>
            /\ load_food(fs'.food, last'.key) = LoadNone
            /\ OtherFoodsKept(last'.key)
       /\ (last'.op \in {"save_food", "remove_food"} /\ ~last'.res.ok) =>
            \A k \in FoodKeys : load_food(fs'.food, k) = load_food(fs.food, k)
       /\ (last'.op = "save_journal" /\ last'.res.ok) =>
            /\ load_journal(fs'.dirs, fs'.journal, last'.key) = LoadSome(last'.arg)
            /\ OtherJournalsKept(last'.key)
       /\ (last'.op \in {"load_food", "load_journal"}) => fs' = fs
      ]_vars

\* The file a record saved under the key lives in exists.
RecordExists(f, key) == f.food[FoodPath(key, S_txt)].kind # "absent"

\* C8: remove(k) succeeds exactly when a record saved under k exists; after
\* a successful remove load(k) returns None; a failed remove changes nothing.
C8_RemoveIffExists ==
    [][last'.op = "remove_food" =>
          /\ last'.res.ok <=> RecordExists(fs, last'.key)
          /\ last'.res.ok => load_food(fs'.food, last'.key) = LoadNone
          /\ ~last'.res.ok => fs' = fs
      ]_vars

\* Hand-written files that do not decode.
UndecodableFoodTexts == {<<<<"x">>>>, <<S_kcal \o <<":", " ", "x">>>>}
UndecodableJournalTexts == {<<<<"a", ":", "x">>>>}

NoFoodFile(key) == fs.food[FoodPath(key, S_txt)].kind = "absent"
NoJournalFile(date) ==
    JournalDir(date) \notin fs.dirs \/ fs.journal[journal_path(date)].kind = "absent"
BadFoodFile(key) ==
    LET e == fs.food[FoodPath(key, S_txt)]
    IN  e.kind = "denied" \/ (e.kind = "file" /\ e.text \in UndecodableFoodTexts)
BadJournalFile(date) ==
    LET e == fs.journal[journal_path(date)]
    IN  /\ JournalDir(date) \in fs.dirs
        /\ e.kind = "denied" \/ (e.kind = "file" /\ e.text \in UndecodableJournalTexts)

\* C9: a load with no backing file returns None and show_journal then works
\* on the empty journal; a file that cannot be opened or decoded gives an
\* error; None is returned only when there is no file.
C9_MissingFileIsNotAnError ==
    /\ last.op = "load_food" =>
         /\ NoFoodFile(last.key) <=> last.res = LoadNone
         /\ BadFoodFile(last.key) => ~last.res.ok
    /\ last.op = "load_journal" =>
         /\ NoJournalFile(last.key) <=> last.res = LoadNone
         /\ BadJournalFile(last.key) => ~last.res.ok
    /\ last.op = "show_journal" =>
         /\ NoJournalFile(last.key) => (last.res.ok /\ last.arg = <<>>)
         /\ BadJournalFile(last.key) => ~last.res.ok

\* show_journal of a day with no file, in a month directory that exists,
\* has shown the empty journal.
C9_Witness ==
    /\ last.op = "show_journal"
    /\ JournalDir(last.key) \in fs.dirs
    /\ fs.journal[journal_path(last.key)].kind = "absent"
    /\ last.res.ok
    /\ last.arg = <<>>

-----------------------------------------------------------------------------
(* Journal::load (journal.rs) and Food::load (food.rs): a loader reads a   *)
(* text and asks a resolver, load_food, for every food key it meets.       *)
(* The reader is taken to deliver every line; Ini::read_from belongs to    *)
(* the ini crate, so Food::load starts from the parsed Ini or from its     *)
(* failure to parse.                                                       *)

\* impl FromStr for Serving (serving.rs): the text is trimmed first.
ServingFromStr(s) == LibServingFromStr(Trim(s))

\* Result<Journal> and Result<Food>.
LoadOk(v) == [ok |-> TRUE, val |-> v, err |-> NoErr]
LoadFail(e) == [ok |-> FALSE, val |-> <<>>, err |-> e]

\* The errors of a load: a number or serving that does not parse, the
\* context "Food not found: {key}", the bail! messages of Food::load and the
\* error of Ini::read_from.
ErrParse == [kind |-> "parse"]
ErrNotFound(key) == [kind |-> "Food not found", key |-> key]
ErrMissingName == [kind |-> "Missing name"]
ErrNoSpec == [kind |-> "Must specify one of [nutrients] or [ingredients]"]
ErrBothSpecs == [kind |-> "Cannot have both [nutrients] and [ingredients]"]
ErrIni == [kind |-> "ini"]

\* What the load_food callback returns: Ok(Some(food)), Ok(None) or Err(e).
Found(f) == [ok |-> TRUE, some |-> TRUE, val |-> f, err |-> NoErr]
NotFound == [ok |-> TRUE, some |-> FALSE, val |-> Plain, err |-> NoErr]
Failed(e) == [ok |-> FALSE, some |-> FALSE, val |-> Plain, err |-> e]

\* load_food(key) for a resolver given as a table of the keys it knows.
Resolve(resolver, key) == IF key \in DOMAIN resolver THEN resolver[key] ELSE NotFound

JournalEntry(key, s, f) == [key |-> key, serving |-> s, food |-> f]

RECURSIVE JournalLoadLines(_, _, _, _)
RECURSIVE JournalLoadLines_DropsMissing(_, _, _, _)

\* Mutant of JournalLoadLines: a line whose food is not found is skipped.
JournalLoadLines_DropsMissing(lines, i, rows, resolver) ==
    IF i > Len(lines) THEN LoadOk(rows)
    ELSE LET line == Trim(lines[i])
             kv == SplitOnce(line, "=")
             key == IF kv.found THEN Trim(kv.before) ELSE line
             sv == IF kv.found THEN ServingFromStr(kv.after) ELSE ParseOk(ServingDefault)
             r == Resolve(resolver, key)
             n == serve(r.val, sv.val)
         IN  IF line = <<>> THEN JournalLoadLines_DropsMissing(lines, i + 1, rows, resolver)
             ELSE IF ~sv.ok THEN LoadFail(ErrParse)
             ELSE IF ~r.ok THEN LoadFail(r.err)
             ELSE IF ~r.some THEN JournalLoadLines_DropsMissing(lines, i + 1, rows, resolver)
             ELSE IF ~n.ok THEN LoadFail(n.err)
             ELSE JournalLoadLines_DropsMissing(lines, i + 1,
                      Append(rows, JournalEntry(key, sv.val, r.val)), resolver)

\* The `for line in r.lines()` loop of Journal::load from line i on.
JournalLoadLines(lines, i, rows, resolver) ==
    IF i > Len(lines) THEN LoadOk(rows)
    ELSE LET line == Trim(lines[i])
             kv == SplitOnce(line, "=")
             key == IF kv.found THEN Trim(kv.before) ELSE line
             sv == IF kv.found THEN ServingFromStr(kv.after) ELSE ParseOk(ServingDefault)
             r == Resolve(resolver, key)
             n == serve(r.val, sv.val)
         IN  IF line = <<>> THEN JournalLoadLines(lines, i + 1, rows, resolver)
             ELSE IF ~sv.ok THEN LoadFail(ErrParse)
             ELSE IF ~r.ok THEN LoadFail(r.err)
             ELSE IF ~r.some THEN LoadFail(ErrNotFound(key))
             ELSE IF ~n.ok THEN LoadFail(n.err)
             ELSE JournalLoadLines(lines, i + 1,
                      Append(rows, JournalEntry(key, sv.val, r.val)), resolver)

\* Journal::load.
JournalLoad(lines, resolver) == JournalLoadLines(lines, 1, <<>>, resolver)

\* A parsed Ini: the general section and the sections Food::load reads, each
\* a list of (key, value) in file order, or absent.
Ini(general, servings, nutrients, ingredients) ==
    [ok |-> TRUE, general |-> general, servings |-> servings,
     nutrients |-> nutrients, ingredients |-> ingredients]
BadIni == [ok |-> FALSE, general |-> <<>>, servings |-> None, nutrients |-> None,
           ingredients |-> None]

\* Properties::get: the value of the first entry with the key, if any.
Get(props, key) ==
    LET hits == {i \in 1..Len(props) : props[i][1] = key}
    IN  IF hits = {} THEN None ELSE Some(props[Min(hits)][2])

\* The `for (k, v) in servings.iter()` loop of Food::load from entry i on.
RECURSIVE FoodLoadServings(_, _, _)
FoodLoadServings(props, i, servings) ==
    IF i > Len(props) THEN LoadOk(servings)
    ELSE LET size == ParseF32(props[i][2])
         IN  IF ~size.ok THEN LoadFail(ErrParse)
             ELSE FoodLoadServings(props, i + 1, Append(servings, <<props[i][1], size.val>>))

\* n.get(key).unwrap_or("0").parse()
FoodLoadNutrient(props, key) ==
    LET v == Get(props, key) IN ParseF32(IF v.some THEN v.val ELSE <<"0">>)

\* The (Some(n), None) arm of Food::load.
FoodLoadNutrients(props) ==
    LET kcal == FoodLoadNutrient(props, S_kcal)
        carb == FoodLoadNutrient(props, S_carb)
        fat == FoodLoadNutrient(props, S_fat)
        protein == FoodLoadNutrient(props, S_protein)
    IN  IF kcal.ok /\ carb.ok /\ fat.ok /\ protein.ok
        THEN LoadOk(SpecNutrients(Nutrients(carb.val, fat.val, protein.val, kcal.val)))
        ELSE LoadFail(ErrParse)

\* The `for (k, v) in i` loop of Food::load from entry i on: the serving is
\* parsed before the food is looked up.
RECURSIVE FoodLoadIngredients(_, _, _, _)
FoodLoadIngredients(props, i, ingredients, resolver) ==
    IF i > Len(props) THEN LoadOk(SpecIngredients(ingredients))
    ELSE LET k == props[i][1]
             sv == ServingFromStr(props[i][2])
             r == Resolve(resolver, k)
         IN  IF ~sv.ok THEN LoadFail(ErrParse)
             ELSE IF ~r.ok THEN LoadFail(r.err)
             ELSE IF ~r.some THEN LoadFail(ErrNotFound(k))
             ELSE FoodLoadIngredients(props, i + 1,
                      Append(ingredients, Ingredient(k, sv.val, r.val)), resolver)

\* Mutant of FoodLoad: with both sections the [ingredients] are ignored.
FoodLoad_NutrientsWin(ini, resolver) ==
    LET name == Get(ini.general, S_name)
        servings == IF ini.servings.some THEN FoodLoadServings(ini.servings.val, 1, <<>>)
                    ELSE LoadOk(<<>>)
        spec == IF ini.nutrients.some THEN FoodLoadNutrients(ini.nutrients.val)
                ELSE FoodLoadIngredients(ini.ingredients.val, 1, <<>>, resolver)
    IN  IF ~ini.ok THEN LoadFail(ErrIni)
        ELSE IF ~name.some THEN LoadFail(ErrMissingName)
        ELSE IF ~servings.ok THEN servings
        ELSE IF ~ini.nutrients.some /\ ~ini.ingredients.some THEN LoadFail(ErrNoSpec)
        ELSE IF ~spec.ok THEN spec
        ELSE LoadOk(Food(name.val, spec.val, servings.val))

\* Food::load.
FoodLoad(ini, resolver) ==
    LET name == Get(ini.general, S_name)
        servings == IF ini.servings.some THEN FoodLoadServings(ini.servings.val, 1, <<>>)
                    ELSE LoadOk(<<>>)
        spec == IF ini.nutrients.some THEN FoodLoadNutrients(ini.nutrients.val)
                ELSE FoodLoadIngredients(ini.ingredients.val, 1, <<>>, resolver)
    IN  IF ~ini.ok THEN LoadFail(ErrIni)
        ELSE IF ~name.some THEN LoadFail(ErrMissingName)
        ELSE IF ~servings.ok THEN servings
        ELSE IF ~ini.nutrients.some /\ ~ini.ingredients.some THEN LoadFail(ErrNoSpec)
        ELSE IF ini.nutrients.some /\ ini.ingredients.some THEN LoadFail(ErrBothSpecs)
        ELSE IF ~spec.ok THEN spec
        ELSE LoadOk(Food(name.val, spec.val, servings.val))

-----------------------------------------------------------------------------
(* The texts and resolvers of the load behaviours *)

MaxLines == 3
MaxRefs == 2

K_a == <<"a">>
K_b == <<"b">>
K_e == <<"e">>
K_yy == <<"y", "y">>
K_zz == <<"z", "z">>

\* The error of a resolver that fails on a key, such as a file that cannot
\* be read.
ErrResolver(key) == [kind |-> "load_food", key |-> key]

\* "a" is a food with the units g and cu, the resolver fails on "e", "yy" is
\* never defined and "zz" is defined by the second resolver only.
Resolvers ==
    {(K_a :> Found(Oats)) @@ (K_e :> Failed(ErrResolver(K_e))),
     (K_a :> Found(Oats)) @@ (K_e :> Failed(ErrResolver(K_e))) @@ (K_zz :> Found(Plain))}

\* Journal lines: a bare key, a key with a serving, a serving that is no
\* number, a unit the food does not have, a blank line, a key the resolver
\* fails on and keys that may be undefined.
JournalLines ==
    {<<"a">>,
     <<"a", " ", "=", " ", "2", " ", "g">>,
     <<"a", "=", "x">>,
     <<"a", "=", "1", "q">>,
     <<" ">>,
     <<"e">>,
     <<"z", "z">>,
     <<"z", "z", "=", "1">>,
     <<" ", "y", "y", " ">>}

\* The entries of an [ingredients] section.
IngredientProps ==
    {<<K_a, <<"1">>>>, <<K_zz, <<"2", " ", "g">>>>, <<K_zz, <<"x">>>>,
     <<K_e, <<"1">>>>, <<K_yy, <<"1">>>>}

Inis ==
    {BadIni} \cup
    {Ini(g, sv, n, i) :
        g \in {<<>>, <<<<S_name, <<"N">>>>>>},
        sv \in {None, Some(<<<<U_g, <<"2">>>>>>), Some(<<<<U_g, <<"x">>>>>>),
                Some(<<<<U_c, <<"2">>>>, <<U_cu, <<"1">>>>>>)},
        n \in {None, Some(<<<<S_kcal, <<"5">>>>>>), Some(<<<<S_kcal, <<"x">>>>>>)},
        i \in {None} \cup {Some(l) : l \in SeqsUpTo(IngredientProps, MaxRefs)}}

-----------------------------------------------------------------------------
(* The loaders as a state machine: a caller holds a text and a resolver,   *)
(* calls load once and keeps the result.                                   *)

InitLoad ==
    /\ \/ /\ mode = "Journal::load"
          /\ input \in [src : SeqsUpTo(JournalLines, MaxLines), resolver : Resolvers]
       \/ /\ mode = "Food::load"
          /\ input \in [src : Inis, resolver : Resolvers]
    /\ food = Plain
    /\ serving = ServingDefault
    /\ result = NoResult
    /\ pc = "call"
    /\ fs = NoFs
    /\ last = NoCall

JournalLoadCall ==
    /\ mode = "Journal::load"
    /\ pc = "call"
    /\ result' = JournalLoad(input.src, input.resolver)
    /\ pc' = "done"
    /\ UNCHANGED <<input, mode, food, serving, fs, last>>

FoodLoadCall ==
    /\ mode = "Food::load"
    /\ pc = "call"
    /\ result' = FoodLoad(input.src, input.resolver)
    /\ pc' = "done"
    /\ UNCHANGED <<input, mode, food, serving, fs, last>>

\* The units a loaded food is asked for: none, "c", "cu" and "g".
LoadedUnits == {None, Some(U_c), Some(U_cu), Some(U_g)}

\* The caller serves one `unit` of the food it has loaded.
ServeLoaded(unit) ==
    /\ mode = "Food::load"
    /\ pc = "done"
    /\ result.ok
    /\ food' = result.val
    /\ serving' = Serving(One, unit)
    /\ last' = Call("serve", <<>>, <<>>, serve(result.val, Serving(One, unit)))
    /\ pc' = "served"
    /\ UNCHANGED <<input, mode, result, fs>>

NextLoad ==
    \/ JournalLoadCall
    \/ FoodLoadCall
    \/ \E u \in LoadedUnits : ServeLoaded(u)

SpecLoad == InitLoad /\ [][NextLoad]_vars

-----------------------------------------------------------------------------
(* Claims about the loaders *)

LoadDone == mode \in {"Journal::load", "Food::load"} /\ pc = "done"

\* The food reference of a journal line: its key and its parsed serving.
RefOf(line) ==
    LET t == Trim(line)
        kv == SplitOnce(t, "=")
    IN  [key |-> IF kv.found THEN Trim(kv.before) ELSE t,
         sv |-> IF kv.found THEN ServingFromStr(kv.after) ELSE ParseOk(ServingDefault)]

NonBlank(line) == Trim(line) # <<>>

\* The food references of the text, in file order.
Refs ==
    IF mode = "Journal::load"
    THEN LET ls == SelectSeq(input.src, NonBlank)
         IN  [i \in 1..Len(ls) |-> RefOf(ls[i])]
    ELSE IF input.src.ok /\ input.src.ingredients.some
    THEN LET ps == input.src.ingredients.val
         IN  [i \in 1..Len(ps) |-> [key |-> ps[i][1], sv |-> ServingFromStr(ps[i][2])]]
    ELSE <<>>

\* What the resolver answers for the i-th reference.
Outcome(i) == Resolve(input.resolver, Refs[i].key)
MissingRefs == {i \in 1..Len(Refs) : Outcome(i).ok /\ ~Outcome(i).some}
FailedRefs == {i \in 1..Len(Refs) : ~Outcome(i).ok}

\* The i-th reference loads: its serving parses, its food is found and, in
\* a journal, the food has the serving's unit.
Clean(i) ==
    /\ Refs[i].sv.ok
    /\ Outcome(i).some
    /\ mode = "Journal::load" => serve(Outcome(i).val, Refs[i].sv.val).ok

\* Food::load gets as far as the [ingredients] section.
Preamble ==
    mode = "Food::load" =>
        /\ input.src.ok
        /\ Get(input.src.general, S_name).some
        /\ input.src.servings.some => FoodLoadServings(input.src.servings.val, 1, <<>>).ok
        /\ ~input.src.nutrients.some

\* The load gets as far as looking up the i-th reference.
Reached(i) ==
    /\ Preamble
    /\ \A j \in 1..(i - 1) : Clean(j)
    /\ Refs[i].sv.ok

\* The keys of the entries of a loaded journal or food, in order.
EntryKeys ==
    LET es == IF mode = "Journal::load" THEN result.val ELSE result.val.spec.list
    IN  [i \in 1..Len(es) |-> es[i].key]
RefKeys == [i \in 1..Len(Refs) |-> Refs[i].key]

\* C10 as stated: a load of a text that references a key the resolver does
\* not find fails with an error naming such a key; when all keys are found
\* but the resolver fails on one, the load fails with the resolver's error;
\* a load that succeeds has dropped no entry.
C10_MissingKeyNamed ==
    LoadDone =>
        /\ MissingRefs # {} =>
             \E i \in MissingRefs : result = LoadFail(ErrNotFound(Refs[i].key))
        /\ (MissingRefs = {} /\ FailedRefs # {}) =>
             \E i \in FailedRefs : result = LoadFail(Outcome(i).err)
        /\ result.ok => EntryKeys = RefKeys

\* C10, amended: a load of a text that references a key the resolver does
\* not find always fails, and a load that succeeds has an entry for every
\* reference; the error is that of the first failure in file order: it names
\* the missing key, or is the resolver's own error, when the load gets as far
\* as looking up that reference.
C10_MissingKeyFails ==
    LoadDone =>
        /\ MissingRefs # {} => ~result.ok
        /\ \A i \in MissingRefs :
             Reached(i) => result = LoadFail(ErrNotFound(Refs[i].key))
        /\ \A i \in FailedRefs :
             Reached(i) => result = LoadFail(Outcome(i).err)
        /\ result.ok => EntryKeys = RefKeys

\* A journal whose first line loads and whose second line names "zz", which
\* the resolver does not find: the load has failed naming "zz".
C10_Witness ==
    /\ mode = "Journal::load"
    /\ pc = "done"
    /\ Len(Refs) >= 2
    /\ Clean(1)
    /\ 2 \in MissingRefs
    /\ Refs[2].key = K_zz
    /\ result = LoadFail(ErrNotFound(K_zz))

\* C12: a Food text with both or with neither of [nutrients] and
\* [ingredients] does not load, with the bail! message of its case when the
\* name and the servings are valid; a loaded Food has spec Nutrients exactly
\* when the text had [nutrients] and spec Ingredients exactly when it had
\* [ingredients].
C12_ExactlyOneSpec ==
    (mode = "Food::load" /\ pc = "done" /\ input.src.ok) =>
        LET n == input.src.nutrients.some
            i == input.src.ingredients.some
            valid == /\ Get(input.src.general, S_name).some
                     /\ input.src.servings.some =>
                            FoodLoadServings(input.src.servings.val, 1, <<>>).ok
        IN  /\ (n /\ i) => ~result.ok
            /\ (~n /\ ~i) => ~result.ok
            /\ (n /\ i /\ valid) => result = LoadFail(ErrBothSpecs)
            /\ (~n /\ ~i /\ valid) => result = LoadFail(ErrNoSpec)
            /\ result.ok =>
                 /\ result.val.spec.tag = "Nutrients" <=> n
                 /\ result.val.spec.tag = "Ingredients" <=> i
                 /\ n # i

\* A text with a name, a [nutrients] and an [ingredients] section whose
\* ingredient would load has been refused.
C12_Witness ==
    /\ mode = "Food::load"
    /\ pc = "done"
    /\ input.src.ok
    /\ input.src.nutrients = Some(<<<<S_kcal, <<"5">>>>>>)
    /\ input.src.ingredients = Some(<<<<K_a, <<"1">>>>>>)
    /\ result = LoadFail(ErrBothSpecs)

-----------------------------------------------------------------------------
(* eat (main.rs): the command looks up the food, checks the serving against *)
(* it and appends the pair to the journal of today.  The behaviours start   *)
(* from the empty Database; foods are stored by save_food, the month        *)
(* directories and hand-written journals come from the user.                *)

\* The Food that main.rs calls serve on: the stored food's nutrients and
\* servings table.
AsFood(f) == Food(f.name, SpecNutrients(f.nutrients), f.servings)

\* "a" has the units g and cu; "b" has c and cu, so that "c" is ambiguous.
EatOats ==
    LibFood(<<"O", "a", "t", "s">>,
            Nutrients(Num(12, 1), Num(3, 1), Num(8, 1), Num(120, 1)),
            <<<<U_g, Num(2, 1)>>, <<U_cu, Num(1, 2)>>>>)
EatClash ==
    LibFood(<<"K">>, Nutrients(One, One, One, Num(17, 1)),
            <<<<U_c, Num(2, 1)>>, <<U_cu, Num(1, 2)>>>>)
EatFoods == {<<K_a, EatOats>>, <<K_b, EatClash>>}

\* The arguments of the command, a key and an optional serving: "a", "a 1c"
\* (an abbreviation of cu), "a 1q" (no such unit), "b 1c" (ambiguous) and
\* "zz" (no such food).
EatRequests ==
    {<<K_a, None>>, <<K_a, Some(<<"1", "c">>)>>, <<K_a, Some(<<"1", "q">>)>>,
     <<K_b, Some(<<"1", "c">>)>>, <<K_zz, None>>}

\* The days `today` may be.
EatDates == {Date(2024, 7, 1), Date(2023, 12, 31)}

\* Hand-written journals: "a:1.5c" and "a:1q".
EatEditedTexts ==
    {<<<<"a", ":", "1", ".", "5", "c">>>>, <<<<"a", ":", "1", "q">>>>}

EatErr(kind) == [ok |-> FALSE, some |-> FALSE, val |-> kind]

\* Mutant of eat: the entry is stored before the food and the serving are
\* looked at.
eat_SavesFirst(f, date, key, sopt) ==
    LET lf == load_food(f.food, key)
        sv == IF sopt.some THEN LibServingFromStr(sopt.val) ELSE ParseOk(ServingDefault)
        n == serve(AsFood(lf.val), sv.val)
        lj == load_journal(f.dirs, f.journal, date)
        j == (IF lj.some THEN lj.val ELSE <<>>) \o <<<<key, sv.val>>>>
        sj == save_journal(f, date, j)
    IN  IF ~lj.ok THEN [res |-> EatErr("load_journal"), fs |-> f]
        ELSE IF ~sj.ok THEN [res |-> EatErr("save_journal"), fs |-> f]
        ELSE IF ~lf.ok THEN [res |-> EatErr("load_food"), fs |-> sj.fs]
        ELSE IF ~lf.some THEN [res |-> EatErr("No food with key"), fs |-> sj.fs]
        ELSE IF ~sv.ok THEN [res |-> EatErr("parse"), fs |-> sj.fs]
        ELSE IF ~n.ok THEN [res |-> EatErr("Invalid serving"), fs |-> sj.fs]
        ELSE [res |-> CallOk, fs |-> sj.fs]

\* main.rs eat on the files f with `today` = date: [res, fs].
eat(f, date, key, sopt) ==
    LET lf == load_food(f.food, key)
        sv == IF sopt.some THEN LibServingFromStr(sopt.val) ELSE ParseOk(ServingDefault)
        n == serve(AsFood(lf.val), sv.val)
        lj == load_journal(f.dirs, f.journal, date)
        j == (IF lj.some THEN lj.val ELSE <<>>) \o <<<<key, sv.val>>>>
        sj == save_journal(f, date, j)
    IN  IF ~lf.ok THEN [res |-> EatErr("load_food"), fs |-> f]
        ELSE IF ~lf.some THEN [res |-> EatErr("No food with key"), fs |-> f]
        ELSE IF ~sv.ok THEN [res |-> EatErr("parse"), fs |-> f]
        ELSE IF ~n.ok THEN [res |-> EatErr("Invalid serving"), fs |-> f]
        ELSE IF ~lj.ok THEN [res |-> EatErr("load_journal"), fs |-> f]
        ELSE IF ~sj.ok THEN [res |-> EatErr("save_journal"), fs |-> f]
        ELSE [res |-> CallOk, fs |-> sj.fs]

InitEat ==
    /\ mode = "eat"
    /\ food = Plain
    /\ serving = ServingDefault
    /\ result = NoResult
    /\ pc = "idle"
    /\ fs = [food |-> [n \in FoodFileNames |-> Absent],
             dirs |-> {},
             journal |-> [p \in JournalPaths |-> Absent]]
    /\ last = Call("new", <<>>, <<>>, CallOk)
    /\ input = NoInput

Eat(date, key, sopt) ==
    /\ mode = "eat"
    /\ LET r == eat(fs, date, key, sopt)
       IN  /\ last' = Call("eat", date, [key |-> key, serving |-> sopt], r.res)
           /\ fs' = r.fs
    /\ UNCHANGED <<input, mode, food, serving, result, pc>>

NextEat ==
    \/ \E d \in EatDates, r \in EatRequests : Eat(d, r[1], r[2])
    \/ \E kf \in EatFoods : SaveFood(kf[1], kf[2])
    \/ \E d \in EatDates : LoadJournal(d)
    \/ \E d \in EatDates : ShowJournal(d)
    \/ \E d \in EatDates : UserMakesDir(JournalDir(d))
    \/ \E d \in EatDates, t \in EatEditedTexts : UserEditsJournal(d, t)

SpecEat == InitEat /\ [][NextEat]_vars

-----------------------------------------------------------------------------
(* Claims about journals in the Database and about eat *)

\* serve of the stored food of a journal row.
RowServe(files, row) == serve(AsFood(load_food(files, row[1]).val), row[2])

\* C11: a journal that load_journal returns has no entry whose unit is
\* unknown or ambiguous for its stored food: such a file fails to load.
C11_LoadValidatesUnits ==
    (last.op = "load_journal" /\ last.res.some) =>
        \A i \in 1..Len(last.res.val) :
            load_food(fs.food, last.res.val[i][1]).some => RowServe(fs.food, last.res.val[i]).ok

\* C16: save_journal for a day whose month directory does not exist yet
\* succeeds, creates the directory and writes the day's file.
C16_SaveCreatesDirs ==
    [][(last'.op = "save_journal" /\ fs.journal[journal_path(last'.key)].kind # "denied") =>
          /\ last'.res.ok
          /\ JournalDir(last'.key) \in fs'.dirs
          /\ fs'.journal[journal_path(last'.key)] = File(SaveJournalText(last'.arg))
      ]_vars

\* The serving an eat request stands for.
RequestServing(sopt) ==
    IF sopt.some THEN LibServingFromStr(sopt.val) ELSE ParseOk(ServingDefault)

\* The journal of a day as the program reads it, empty when there is none.
StoredJournal(f, date) ==
    LET l == load_journal(f.dirs, f.journal, date)
    IN  [ok |-> l.ok, val |-> IF l.some THEN l.val ELSE <<>>]

\* C18: after a successful eat the journal of the day is the journal it was
\* before followed by the eaten (key, serving), and it can be read back.
C18_EatAppends ==
    [][(last'.op = "eat" /\ last'.res.ok) =>
          /\ StoredJournal(fs', last'.key).ok
          /\ StoredJournal(fs', last'.key).val =
                 StoredJournal(fs, last'.key).val
                     \o <<<<last'.arg.key, RequestServing(last'.arg.serving).val>>>>
      ]_vars

\* An eat request names no stored food, or a unit that is unknown or
\* ambiguous for the stored food.
BadRequest(f, arg) ==
    LET lf == load_food(f.food, arg.key)
        sv == RequestServing(arg.serving)
    IN  \/ lf = LoadNone
        \/ lf.some /\ sv.ok /\ ~serve(AsFood(lf.val), sv.val).ok

\* C19: an eat that names no stored food, or a unit that is unknown or
\* ambiguous for the food, fails and leaves every file and directory as it
\* was.
C19_FailedEatChangesNothing ==
    [][(last'.op = "eat" /\ BadRequest(fs, last'.arg)) =>
          /\ ~last'.res.ok
          /\ fs' = fs
      ]_vars

\* "b 1c" was refused as ambiguous on a day that has a journal with an entry,
\* in a Database that stores "b".
C19_Witness ==
    /\ last.op = "eat"
    /\ last.arg = [key |-> K_b, serving |-> Some(<<"1", "c">>)]
    /\ last.res = EatErr("Invalid serving")
    /\ fs.journal[journal_path(last.key)].kind = "file"
    /\ fs.journal[journal_path(last.key)].text # <<>>

\* The sum of serve over the rows of a journal from row i on.
RECURSIVE ServeTotal(_, _, _, _)
ServeTotal(files, j, i, total) ==
    IF i > Len(j) THEN total
    ELSE ServeTotal(files, j, i + 1, NAdd(total, RowServe(files, j[i]).val))

\* C20: the total show_journal computes for a journal whose entries all
\* resolve is the sum of serve(food, serving) over the entries.
C20_TotalIsSumOfServes ==
    (/\ last.op = "show_journal"
     /\ last.res.ok
     /\ \A i \in 1..Len(last.arg) : RowServe(fs.food, last.arg[i]).ok) =>
        last.res.val = ServeTotal(fs.food, last.arg, 1, NutrientsDefault)

-----------------------------------------------------------------------------
(* save and path of the Data types (journal.rs, food.rs, recipe.rs) *)

\* Journal::save: "{key} = {serving}" for every entry.
JournalSave(j) ==
    [i \in 1..Len(j) |-> j[i].key \o <<" ", "=", " ">> \o ServingToString(j[i].serving)]

\* Food::save, up to the Ini it hands to write_to_opt.  A section exists once
\* an entry is added to it, so an empty list leaves no section.
FoodSave(f) ==
    Ini(<<<<S_name, f.name>>>>,
        IF f.servings = <<>> THEN None
        ELSE Some([i \in 1..Len(f.servings) |->
                      <<f.servings[i][1], FormatF32(f.servings[i][2])>>]),
        IF f.spec.tag = "Nutrients"
        THEN Some(<<<<S_carb, FormatF32(f.spec.n.carb)>>, <<S_fat, FormatF32(f.spec.n.fat)>>,
                    <<S_protein, FormatF32(f.spec.n.protein)>>,
                    <<S_kcal, FormatF32(f.spec.n.kcal)>>>>)
        ELSE None,
        IF f.spec.tag = "Ingredients" /\ f.spec.list # <<>>
        THEN Some([i \in 1..Len(f.spec.list) |->
                      <<f.spec.list[i].key, ServingToString(f.spec.list[i].serving)>>])
        ELSE None)

\* recipe.rs Recipe: a name and a list of (food key, serving).
Recipe(name, ingredients) == [name |-> name, ingredients |-> ingredients]
RecipeDefault == Recipe(<<>>, <<>>)

\* Recipe::save: "{food} = {serving}" for every ingredient.
RecipeSave(r) ==
    [i \in 1..Len(r.ingredients) |->
        r.ingredients[i][1] \o <<" ", "=", " ">> \o ServingToString(r.ingredients[i][2])]

\* The `for line in r.lines()` loop of Recipe::load from line i on.
RECURSIVE RecipeLoadLines(_, _, _)
RecipeLoadLines(lines, i, res) ==
    IF i > Len(lines) THEN LoadOk(res)
    ELSE LET line == Trim(lines[i])
             kv == SplitOnce(line, "=")
             a == Trim(kv.before)
             b == Trim(kv.after)
             sv == ServingFromStr(b)
         IN  IF line = <<>> THEN RecipeLoadLines(lines, i + 1, res)
             ELSE IF kv.found /\ a = S_name
             THEN RecipeLoadLines(lines, i + 1, [res EXCEPT !.name = b])
             ELSE IF kv.found
             THEN (IF ~sv.ok THEN LoadFail(ErrParse)
                   ELSE RecipeLoadLines(lines, i + 1,
                            [res EXCEPT !.ingredients = Append(@, <<a, sv.val>>)]))
             ELSE RecipeLoadLines(lines, i + 1,
                      [res EXCEPT !.ingredients = Append(@, <<line, ServingDefault>>)])

\* Recipe::load.
RecipeLoad(lines) == RecipeLoadLines(lines, 1, RecipeDefault)

S_food == <<"f", "o", "o", "d">>
S_recipe == <<"r", "e", "c", "i", "p", "e">>
S_journal == <<"j", "o", "u", "r", "n", "a", "l">>

\* Food::path and Recipe::path for a key of one component: the components
\* of [DIR, key].collect::<PathBuf>().with_extension("txt").
DataPath(dir, key) == <<dir, WithExtension(key, S_txt)>>

\* Journal::path: "journal/{:04}/{:02}/{:02}.txt".
JournalDataPath(date) ==
    <<S_journal, PadZero(date.y, 4), PadZero(date.m, 2), PadZero(date.d, 2) \o <<".">> \o S_txt>>

-----------------------------------------------------------------------------
(* The values of the round-trip and path behaviours *)

\* The resolver that knows the foods the values embed.
EmbedResolver == (K_a :> Found(Oats)) @@ (K_zz :> Found(Plain))

\* Entries whose serving is valid for the food: "a" by servings, by an
\* abbreviated unit and by a full unit, "zz" by servings.
ValidRefs ==
    {<<K_a, ServingDefault, Oats>>, <<K_a, Serving(Num(3, 1), Some(U_c)), Oats>>,
     <<K_a, Serving(Num(1, 2), Some(U_g)), Oats>>, <<K_zz, Serving(Num(5, 2), None), Plain>>}

JournalsToSave ==
    {[i \in 1..Len(l) |-> JournalEntry(l[i][1], l[i][2], l[i][3])] :
        l \in SeqsUpTo(ValidRefs, MaxLines)}

FoodsToSave ==
    {Food(<<"N">>, spec, sv) :
        spec \in {SpecNutrients(Oats.spec.n), SpecNutrients(Plain.spec.n)} \cup
                 {SpecIngredients([i \in 1..Len(l) |-> Ingredient(l[i][1], l[i][2], l[i][3])]) :
                     l \in SeqsUpTo(ValidRefs, MaxRefs) \ {<<>>}},
        sv \in {<<>>, <<<<U_g, Num(2, 1)>>>>, <<<<U_cu, Num(1, 2)>>, <<U_g, Num(2, 1)>>>>}}

\* Stored foods of lib.rs; one name has a ':'.
LibFoodsToSave ==
    {LibFood(name, n, sv) :
        name \in {<<"O", "a", "t", "s">>, <<"A", ":", "B">>},
        n \in {Oats.spec.n, Plain.spec.n},
        sv \in {<<>>, <<<<U_g, Num(2, 1)>>>>, <<<<U_cu, Num(1, 2)>>, <<U_g, Num(2, 1)>>>>}}

RecipesToSave ==
    {Recipe(name, [i \in 1..Len(l) |-> <<l[i][1], l[i][2]>>]) :
        name \in {<<>>, <<"R">>}, l \in SeqsUpTo(ValidRefs, MaxRefs)}

\* Recipe lines: the name, a bare key, a unit the food does not have, a key
\* that is never defined, a serving that is no number and a blank line.
RecipeLines ==
    {<<"n", "a", "m", "e", " ", "=", " ", "R">>,
     <<"a">>,
     <<"a", " ", "=", " ", "1", " ", "q">>,
     <<"y", "y", "=", "2">>,
     <<"a", "=", "x">>,
     <<" ">>}

\* Keys of one path component, with and without a '.'.
PathKeys == {<<"a">>, <<"a", "b">>, <<"a", ".", "b">>, <<"a", ".", "c">>, <<"b">>}

-----------------------------------------------------------------------------
(* save followed by load, Recipe::load and path as a state machine: a      *)
(* caller holds a value, a text or two keys, makes the calls once and      *)
(* keeps what they returned.  The resolver of a recipe text is the one the *)
(* caller has at hand; Recipe::load does not take it.                      *)

InitData ==
    /\ \/ /\ mode = "Journal"
          /\ input \in [src : JournalsToSave, resolver : {EmbedResolver}]
       \/ /\ mode = "Food"
          /\ input \in [src : FoodsToSave, resolver : {EmbedResolver}]
       \/ /\ mode = "lib Food"
          /\ input \in [src : LibFoodsToSave, resolver : {<<>>}]
       \/ /\ mode = "Recipe"
          /\ input \in [src : RecipesToSave, resolver : {<<>>}]
       \/ /\ mode = "Recipe::load"
          /\ input \in [src : SeqsUpTo(RecipeLines, MaxLines), resolver : Resolvers]
       \/ /\ mode = "path"
          /\ input \in [src : [dir : {S_food, S_recipe}, k1 : PathKeys, k2 : PathKeys]
                                  \cup [dir : {S_journal}, k1 : Dates, k2 : Dates],
                        resolver : {<<>>}]
    /\ food = Plain
    /\ serving = ServingDefault
    /\ result = NoResult
    /\ pc = "call"
    /\ fs = NoFs
    /\ last = NoCall

Saved(text, loaded) == [saved |-> text, loaded |-> loaded]

JournalRoundTrip ==
    /\ mode = "Journal"
    /\ pc = "call"
    /\ result' = Saved(JournalSave(input.src),
                       JournalLoad(JournalSave(input.src), input.resolver))
    /\ pc' = "done"
    /\ UNCHANGED <<input, mode, food, serving, fs, last>>

FoodRoundTrip ==
    /\ mode = "Food"
    /\ pc = "call"
    /\ result' = Saved(FoodSave(input.src), FoodLoad(FoodSave(input.src), input.resolver))
    /\ pc' = "done"
    /\ UNCHANGED <<input, mode, food, serving, fs, last>>

\* save_food("a", v) into an empty food directory, then load_food("a").
LibFoodRoundTrip ==
    /\ mode = "lib Food"
    /\ pc = "call"
    /\ result' = Saved(SaveFoodText(input.src),
                       load_food(FoodPath(K_a, S_txt) :> File(SaveFoodText(input.src)), K_a))
    /\ pc' = "done"
    /\ UNCHANGED <<input, mode, food, serving, fs, last>>

RecipeRoundTrip ==
    /\ mode = "Recipe"
    /\ pc = "call"
    /\ result' = Saved(RecipeSave(input.src), RecipeLoad(RecipeSave(input.src)))
    /\ pc' = "done"
    /\ UNCHANGED <<input, mode, food, serving, fs, last>>

RecipeLoadCall ==
    /\ mode = "Recipe::load"
    /\ pc = "call"
    /\ result' = RecipeLoad(input.src)
    /\ pc' = "done"
    /\ UNCHANGED <<input, mode, food, serving, fs, last>>

\* path of the two keys.
PathCalls ==
    /\ mode = "path"
    /\ pc = "call"
    /\ result' = IF input.src.dir = S_journal
                 THEN <<JournalDataPath(input.src.k1), JournalDataPath(input.src.k2)>>
                 ELSE <<DataPath(input.src.dir, input.src.k1),
                        DataPath(input.src.dir, input.src.k2)>>
    /\ pc' = "done"
    /\ UNCHANGED <<input, mode, food, serving, fs, last>>

NextData ==
    \/ JournalRoundTrip
    \/ FoodRoundTrip
    \/ LibFoodRoundTrip
    \/ RecipeRoundTrip
    \/ RecipeLoadCall
    \/ PathCalls

SpecData == InitData /\ [][NextData]_vars

-----------------------------------------------------------------------------
(* Claims about save, load and path *)

\* C13: loading what save wrote for a Journal or a Food, with a resolver
\* that returns the foods the value embeds, gives back the value; so does
\* load_food after save_food.
C13_RoundTrip ==
    /\ (mode \in {"Journal", "Food"} /\ pc = "done") => result.loaded = LoadOk(input.src)
    /\ (mode = "lib Food" /\ pc = "done") => result.loaded = LoadSome(input.src)

\* C14: loading what save wrote for a Recipe gives back the Recipe, its
\* name and its ingredients in order.
C14_RecipeRoundTrip ==
    (mode = "Recipe" /\ pc = "done") => result.loaded = LoadOk(input.src)

\* The ingredient lines of a recipe text: neither blank nor the name.
IngredientLine(line) ==
    LET kv == SplitOnce(Trim(line), "=")
    IN  NonBlank(line) /\ ~(kv.found /\ Trim(kv.before) = S_name)

\* The food references of a recipe text, in file order.
RecipeRefs ==
    LET ls == SelectSeq(input.src, IngredientLine)
    IN  [i \in 1..Len(ls) |-> RefOf(ls[i])]

\* The i-th reference names a key the resolver does not find.
UndefinedKey(i) ==
    LET o == Resolve(input.resolver, RecipeRefs[i].key)
    IN  o.ok /\ ~o.some

\* The i-th reference has a unit its food cannot serve.
InvalidUnit(i) ==
    LET o == Resolve(input.resolver, RecipeRefs[i].key)
        sv == RecipeRefs[i].sv
    IN  sv.ok /\ o.ok /\ o.some /\ ~serve(o.val, sv.val).ok

\* C15: a recipe text that references a key the resolver does not find, or
\* uses a unit that is unknown or ambiguous for the referenced food, does not
\* load.
C15_RecipeLoadChecksEntries ==
    (mode = "Recipe::load" /\ pc = "done") =>
        \A i \in 1..Len(RecipeRefs) :
            (UndefinedKey(i) \/ InvalidUnit(i)) => ~result.ok

\* C17: two distinct keys have distinct paths; a path starts with DIR and
\* ends with ".txt".
C17_PathInjective ==
    (mode = "path" /\ pc = "done") =>
        /\ input.src.k1 # input.src.k2 => result[1] # result[2]
        /\ \A i \in {1, 2} :
             LET name == result[i][Len(result[i])]
             IN  /\ result[i][1] = input.src.dir
                 /\ Len(name) > 4
                 /\ SubSeq(name, Len(name) - 3, Len(name)) = <<".">> \o S_txt

-----------------------------------------------------------------------------
(* Database::list and main.rs list_food.  read_dir yields the entries of   *)
(* the food directory in an order the file system chooses; an entry may    *)
(* fail to be read from the directory, and the stream then holds an error  *)
(* in its place.                                                           *)

S_root == <<"r">>

\* str::contains
Contains(s, t) == \E i \in 0..(Len(s) - Len(t)) : SubSeq(s, i + 1, i + Len(t)) = t

\* e.path().as_path().to_string_lossy(): the path of an entry of food_dir.
PathText(name) == S_root \o <<"/">> \o S_food \o <<"/">> \o name

\* An item of the listing: Ok(food) or Err.
ItemOk(f) == [ok |-> TRUE, val |-> f]
ItemErr == [ok |-> FALSE, val |-> LibFoodDefault]

\* toml::from_str::<Food> on the layout of TomlText, from line i on: every
\* line is `key = value`, name and the four nutrients are required, and the
\* servings, which TomlText leaves out, come back empty.
RECURSIVE TomlLines(_, _, _, _)
TomlLines(lines, i, f, seen) ==
    IF i > Len(lines)
    THEN (IF seen = {S_name, S_carb, S_fat, S_protein, S_kcal} THEN ItemOk(f) ELSE ItemErr)
    ELSE LET kv == SplitOnce(lines[i], "=")
             k == Trim(kv.before)
             v == Trim(kv.after)
             num == ParseF32(v)
         IN  IF ~kv.found \/ k \in seen THEN ItemErr
             ELSE IF k = S_name
             THEN TomlLines(lines, i + 1, [f EXCEPT !.name = v], seen \cup {k})
             ELSE IF k \in {S_carb, S_fat, S_protein, S_kcal} /\ num.ok
             THEN TomlLines(lines, i + 1,
                            [f EXCEPT !.nutrients =
                                Nutrients(IF k = S_carb THEN num.val ELSE @.carb,
                                          IF k = S_fat THEN num.val ELSE @.fat,
                                          IF k = S_protein THEN num.val ELSE @.protein,
                                          IF k = S_kcal THEN num.val ELSE @.kcal)],
                            seen \cup {k})
             ELSE ItemErr

\* The closure of the map in Database::list on an entry that read_dir
\* yielded: read the file, decode it.
ListItem(e) ==
    IF e.kind # "file" THEN ItemErr ELSE TomlLines(e.text, 1, LibFoodDefault, {})

\* fs::read_dir(dir): one element per entry of the directory in the order
\* `order`, an Err for the entries in `broken`.
read_dir(order, broken) ==
    [i \in 1..Len(order) |-> [ok |-> order[i] \notin broken, name |-> order[i]]]

\* The filter of Database::list: the path contains the term; Err(_) => false.
ListFilter(term, e) == e.ok /\ Contains(PathText(e.name), term)

\* Database::list on the food directory: the items the iterator yields.
list(files, term, order, broken) ==
    LET t == IF term.some THEN term.val ELSE <<>>
        keep(e) == ListFilter(t, e)
        kept == SelectSeq(read_dir(order, broken), keep)
    IN  [i \in 1..Len(kept) |-> ListItem(files[kept[i].name])]

\* The rows of the table main.rs list_food prints: the Ok items.
RECURSIVE Shown(_)
Shown(items) ==
    IF items = <<>> THEN <<>>
    ELSE (IF Head(items).ok THEN <<Head(items).val>> ELSE <<>>) \o Shown(Tail(items))

\* The entries of the food directory.
Present(files) == {n \in DOMAIN files : files[n].kind # "absent"}

\* The orders in which read_dir may yield the entries S.
Perms(S) ==
    {f \in [1..Cardinality(S) -> S] :
        \A i, j \in 1..Cardinality(S) : f[i] = f[j] => i = j}

\* Terms of `food ls`: none, "a", "oo" (in the name of the directory) and
\* "q" (in no path).
ListTerms == {None, Some(<<"a">>), Some(<<"o", "o">>), Some(<<"q">>)}

\* The foods write_food stores as TOML, and the one save_food stores in the
\* format of load_food.
ListFoods ==
    {<<K_a, LibFood(<<"O", "a", "t", "s">>,
                    Nutrients(Num(12, 1), Num(3, 1), Num(8, 1), Num(120, 1)), <<>>)>>,
     <<K_b, LibFood(<<"P">>, Nutrients(Num(1, 2), Zero, Num(7, 10), Num(5, 1)), <<>>)>>}
ListSavedFood == LibFood(<<"P">>, Nutrients(Num(1, 2), Zero, Num(7, 10), Num(5, 1)), <<>>)

InitList ==
    /\ mode = "list"
    /\ food = Plain
    /\ serving = ServingDefault
    /\ result = NoResult
    /\ pc = "idle"
    /\ fs = [food |-> [n \in FoodFileNames |-> Absent],
             dirs |-> {},
             journal |-> [p \in JournalPaths |-> Absent]]
    /\ last = Call("new", <<>>, <<>>, CallOk)
    /\ input = NoInput

\* main.rs list_food: data.list_food(&term)?, then the table of the Ok items.
\* The order of the entries and the entry that fails to be enumerated, if
\* any, are the file system's choice.
ListFood(term) ==
    /\ mode = "list"
    /\ \E order \in Perms(Present(fs.food)),
          broken \in {{}} \cup {{n} : n \in Present(fs.food)} :
          LET items == list(fs.food, term, order, broken)
          IN  last' = Call("list_food", term, [order |-> order, broken |-> broken],
                           LoadSome([items |-> items, shown |-> Shown(items)]))
    /\ UNCHANGED <<input, mode, food, serving, result, pc, fs>>

NextList ==
    \/ \E t \in ListTerms : ListFood(t)
    \/ \E kf \in ListFoods : WriteFood(kf[1], kf[2])
    \/ SaveFood(K_a, ListSavedFood)
    \/ \E n \in FoodFileNames : UserLocksFood(n)

SpecList == InitList /\ [][NextList]_vars

-----------------------------------------------------------------------------
(* Claims about listings *)

\* The entries whose path contains the term of the last listing.
Matching ==
    LET t == IF last.key.some THEN last.key.val ELSE <<>>
    IN  {n \in Present(fs.food) : Contains(PathText(n), t)}

\* The matching entries in the order read_dir went through them.
MatchingSeq ==
    LET in(n) == n \in Matching
    IN  SelectSeq(last.arg.order, in)

\* C22: a listing yields exactly one item for each file of the directory
\* whose path contains the filter, one for every file when there is no
\* filter, and an empty listing, not an error, when nothing matches.
C22_ListMatches ==
    last.op = "list_food" =>
        /\ last.res.ok
        /\ Len(last.res.val.items) = Cardinality(Matching)
        /\ Matching = {} => last.res.val.items = <<>>

\* C23: in a listing an entry that cannot be enumerated, read or decoded is
\* an Err item, every other matching entry is yielded with its decoded
\* value, and list_food shows the decoded values.
C23_ListKeepsGoing ==
    last.op = "list_food" =>
        /\ last.res.ok
        /\ last.res.val.items =
              [i \in 1..Len(MatchingSeq) |->
                  IF MatchingSeq[i] \in last.arg.broken THEN ItemErr
                  ELSE ListItem(fs.food[MatchingSeq[i]])]
        /\ last.res.val.shown = Shown(last.res.val.items)

-----------------------------------------------------------------------------
(* Two `nosh eat` processes on the journal of one day.  Each process runs  *)
(* main.rs eat: it loads the food, parses and checks the serving, loads    *)
(* the day's journal and pushes its entry; save_journal then opens the     *)
(* file with File::create, which truncates it, and the BufWriter writes    *)
(* the lines at the start of the file when it is dropped.  The load, the   *)
(* open and the write are separate system calls, so the steps of the two   *)
(* processes interleave between them.                                       *)

Procs == {1, 2}
RaceDate == Date(2024, 7, 1)
RacePath == journal_path(RaceDate)

\* The commands: "a" (one serving), "a 1c" and "b 1c" (ambiguous unit).
RaceRequests ==
    {<<K_a, None>>, <<K_a, Some(<<"1", "c">>)>>, <<K_b, Some(<<"1", "c">>)>>}

\* A hand-written journal: "a:1.5c".
RaceEditedText == <<<<"a", ":", "1", ".", "5", "c">>>>

\* The bytes of a file of lines: writeln! ends every line with a newline.
RECURSIVE FileBytes(_)
FileBytes(lines) ==
    IF lines = <<>> THEN <<>>
    ELSE Head(lines) \o <<"\n">> \o FileBytes(Tail(lines))

\* str::lines on the bytes left to read, cur being the line read so far.
RECURSIVE StrLines(_, _)
StrLines(bytes, cur) ==
    IF bytes = <<>> THEN (IF cur = <<>> THEN <<>> ELSE <<cur>>)
    ELSE IF Head(bytes) = "\n" THEN <<cur>> \o StrLines(Tail(bytes), <<>>)
    ELSE StrLines(Tail(bytes), Append(cur, Head(bytes)))

\* write(2) of `new` at offset 0 of a file holding `old`: the bytes past the
\* end of the written ones stay.
WriteAtStart(old, new) == new \o SubSeq(old, Len(new) + 1, Len(old))

InitRace ==
    /\ mode = "race"
    /\ food = Plain
    /\ serving = ServingDefault
    /\ result = NoResult
    /\ pc = [p \in Procs |-> "start"]
    /\ \E made \in BOOLEAN, e \in {Absent, File(RaceEditedText), Denied} :
          /\ ~made => e = Absent
          /\ fs = [food |-> [n \in FoodFileNames |->
                                IF n = FoodPath(K_a, S_txt) THEN File(SaveFoodText(EatOats))
                                ELSE IF n = FoodPath(K_b, S_txt) THEN File(SaveFoodText(EatClash))
                                ELSE Absent],
                   dirs |-> IF made THEN {JournalDir(RaceDate)} ELSE {},
                   journal |-> [p \in JournalPaths |-> IF p = RacePath THEN e ELSE Absent]]
    /\ last = Call("new", <<>>, <<>>, CallOk)
    /\ input = [j |-> [p \in Procs |-> <<>>],
                res |-> [p \in Procs |-> NoCall],
                log |-> <<>>]

\* eat up to `journal.0.push((key, serving))` (main.rs:165-180).
EatLoads(p, key, sopt) ==
    /\ mode = "race"
    /\ pc[p] = "start"
    /\ LET lf == load_food(fs.food, key)
           sv == IF sopt.some THEN LibServingFromStr(sopt.val) ELSE ParseOk(ServingDefault)
           n == serve(AsFood(lf.val), sv.val)
           lj == load_journal(fs.dirs, fs.journal, RaceDate)
           err == IF ~lf.ok THEN "load_food"
                  ELSE IF ~lf.some THEN "No food with key"
                  ELSE IF ~sv.ok THEN "parse"
                  ELSE IF ~n.ok THEN "Invalid serving"
                  ELSE IF ~lj.ok THEN "load_journal"
                  ELSE ""
       IN  IF err # ""
           THEN /\ pc' = [pc EXCEPT ![p] = "failed"]
                /\ input' = [input EXCEPT !.res[p] = EatErr(err),
                                          !.log = Append(@, <<p, "load">>)]
           ELSE /\ pc' = [pc EXCEPT ![p] = "loaded"]
                /\ input' = [input EXCEPT
                                !.j[p] = (IF lj.some THEN lj.val ELSE <<>>) \o <<<<key, sv.val>>>>,
                                !.log = Append(@, <<p, "load">>)]
    /\ last' = Call("eat", RaceDate, [key |-> key, serving |-> sopt], CallOk)
    /\ UNCHANGED <<mode, food, serving, result, fs>>

\* save_journal, File::create (lib.rs:380): the file is opened and truncated,
\* or the call fails and eat returns the error.
SaveCreates(p) ==
    /\ mode = "race"
    /\ pc[p] = "loaded"
    /\ IF JournalDir(RaceDate) \notin fs.dirs \/ fs.journal[RacePath].kind = "denied"
       THEN /\ pc' = [pc EXCEPT ![p] = "failed"]
            /\ input' = [input EXCEPT !.res[p] = EatErr("save_journal"),
                                      !.log = Append(@, <<p, "create">>)]
            /\ fs' = fs
       ELSE /\ pc' = [pc EXCEPT ![p] = "created"]
            /\ input' = [input EXCEPT !.log = Append(@, <<p, "create">>)]
            /\ fs' = [fs EXCEPT !.journal[RacePath] = File(<<>>)]
    /\ last' = Call("File::create", RaceDate, p, CallOk)
    /\ UNCHANGED <<mode, food, serving, result>>

\* save_journal, the writeln! loop and the drop of the BufWriter
\* (lib.rs:381-385): the lines go to the start of the open file.
SaveWrites(p) ==
    /\ mode = "race"
    /\ pc[p] = "created"
    /\ fs' = [fs EXCEPT !.journal[RacePath] =
                 File(StrLines(WriteAtStart(FileBytes(@.text),
                                            FileBytes(SaveJournalText(input.j[p]))), <<>>))]
    /\ pc' = [pc EXCEPT ![p] = "done"]
    /\ input' = [input EXCEPT !.res[p] = CallOk, !.log = Append(@, <<p, "write">>)]
    /\ last' = Call("save_journal", RaceDate, input.j[p], CallOk)
    /\ UNCHANGED <<mode, food, serving, result>>

NextRace ==
    \/ \E p \in Procs, r \in RaceRequests : EatLoads(p, r[1], r[2])
    \/ \E p \in Procs : SaveCreates(p)
    \/ \E p \in Procs : SaveWrites(p)

SpecRace == InitRace /\ [][NextRace]_vars

-----------------------------------------------------------------------------
(* Claims about concurrent eat processes *)

RaceDone == mode = "race" /\ \A p \in Procs : pc[p] \in {"done", "failed"}
Writers == {p \in Procs : \E i \in 1..Len(input.log) : input.log[i] = <<p, "write">>}
At(p, step) == CHOOSE i \in 1..Len(input.log) : input.log[i] = <<p, step>>
LastWriter == CHOOSE p \in Writers : \A q \in Writers : At(q, "write") <= At(p, "write")
FirstWriter == CHOOSE p \in Writers : \A q \in Writers : At(p, "write") <= At(q, "write")
BothLoadedFirst ==
    /\ \A p \in Procs : pc[p] = "done"
    /\ \A p, q \in Procs : At(p, "load") < At(q, "create")
SavesOverlap ==
    \E p, q \in Procs :
        /\ p # q
        /\ At(p, "create") < At(q, "create")
        /\ At(q, "create") < At(p, "write")

\* C24: when two eat processes have run on one day's journal, the file holds
\* exactly the journal the last writer saved; when both loaded before either
\* saved, the file has one entry more than was loaded (the first writer's is
\* lost) and both processes returned Ok.
C24_LastWriterWins ==
    RaceDone /\ Writers # {} =>
        /\ fs.journal[RacePath] = File(SaveJournalText(input.j[LastWriter]))
        /\ BothLoadedFirst =>
              /\ \A p \in Procs : input.res[p] = CallOk
              /\ Len(fs.journal[RacePath].text) = Len(input.j[FirstWriter])
              /\ Len(input.j[FirstWriter]) = Len(input.j[LastWriter])

-----------------------------------------------------------------------------
(* Serving literals: impl FromStr for Serving and impl Display for Serving *)
(* of serving.rs and of lib.rs, applied to texts and to Serving values.    *)

\* Every text of up to four of the characters '1', '.', 'c' and ' ', and the
\* literals of test_parse_serving.
ParseTexts ==
    SeqsUpTo({"1", ".", "c", " "}, 4)
    \cup {<<" ", "1", ".", "5", " ", " ", "c", "u", "p", " ">>,
          <<"1", ".", "5", " ", "c", "u", "p">>,
          <<"2", "5", " ", "g", " ", "d", "r", "y">>,
          <<"2", "5", "g", " ", "d", "r", "y">>,
          <<"c", "u", "p", " ", "1", ".", "5">>}

\* Servings a parse can give.
ParseServings ==
    {Serving(One, None), Serving(Zero, Some(U_g)), Serving(Num(3, 2), Some(U_c)),
     Serving(Num(25, 1), Some(<<"g", " ", "d", "r", "y">>))}

Impls == {"serving.rs", "lib.rs"}

\* s.parse::<Serving>() with the FromStr of the given file.
FromStrOf(impl, s) == IF impl = "lib.rs" THEN LibServingFromStr(s) ELSE ServingFromStr(s)

InitParse ==
    /\ mode = "parse"
    /\ food = Plain
    /\ serving \in ParseServings
    /\ result = NoResult
    /\ pc = "idle"
    /\ fs = <<>>
    /\ last = NoCall
    /\ input \in ParseTexts

\* input.parse::<Serving>()
FromStr(impl) ==
    /\ mode = "parse"
    /\ last' = Call("from_str", impl, input, FromStrOf(impl, input))
    /\ UNCHANGED <<input, mode, food, serving, result, pc, fs>>

\* serving.to_string().parse::<Serving>()
ToStringFromStr(impl) ==
    /\ mode = "parse"
    /\ last' = Call("to_string", impl, serving, FromStrOf(impl, ServingToString(serving)))
    /\ UNCHANGED <<input, mode, food, serving, result, pc, fs>>

NextParse ==
    \/ \E i \in Impls : FromStr(i)
    \/ \E i \in Impls : ToStringFromStr(i)

SpecParse == InitParse /\ [][NextParse]_vars

-----------------------------------------------------------------------------
(* Claims about serving literals *)

\* The longest leading run of digits and '.' of s.
RECURSIVE NumericRun(_)
NumericRun(s) ==
    IF s # <<>> /\ (IsDigit(Head(s)) \/ Head(s) = ".")
    THEN <<Head(s)>> \o NumericRun(Tail(s))
    ELSE <<>>

\* The serving a literal stands for: the size is the numeric run of the
\* trimmed text, the unit the trimmed rest, None when nothing remains.
LiteralServing(s) ==
    LET t == Trim(s)
        run == NumericRun(t)
        rest == Trim(SubSeq(t, Len(run) + 1, Len(t)))
        num == ParseF32(run)
    IN  IF num.ok
        THEN ParseOk(Serving(num.val, IF rest = <<>> THEN None ELSE Some(rest)))
        ELSE ParseErr

\* C25: parsing a serving literal ignores the whitespace around it, takes the
\* longest leading run of digits and '.' as the size and the trimmed rest as
\* the unit (no unit when nothing remains), fails when the text does not
\* start with a number, and parsing the displayed text of a serving gives
\* the serving back.
C25_ParseServing ==
    /\ last.op = "from_str" => last.res = LiteralServing(last.arg)
    /\ last.op = "to_string" => last.res = ParseOk(last.arg)

-----------------------------------------------------------------------------
(* SearchFood::servings, the servings table of a food found by a search,   *)
(* in search.rs and in the copy of main.rs.                                *)

SearchFood(size, unit, household) ==
    [serving_size |-> size, serving_size_unit |-> unit,
     household_serving_full_text |-> household]

\* The fields of a search result: no size, 144, 100 or 0.5; no unit or "g"; no
\* household text, "1 cu", "0.5 c", "1  c", "cu", "c 1" or "".
SearchFoods ==
    {SearchFood(size, unit, h) :
        size \in {None, Some(Num(144, 1)), Some(Num(100, 1)), Some(Num(1, 2))},
        unit \in {None, Some(U_g)},
        h \in {None, Some(<<"1", " ", "c", "u">>), Some(<<"0", ".", "5", " ", "c">>),
               Some(<<"1", " ", " ", "c">>), Some(U_cu), Some(<<"c", " ", "1">>),
               Some(<<>>)}}

SearchImpls == {"search.rs", "main.rs"}

\* The two `if let` blocks of servings, with the early returns of the
\* second: [returned, res].
ServingsParsed(sf) ==
    LET first == IF sf.serving_size_unit.some /\ sf.serving_size.some
                 THEN <<<<sf.serving_size_unit.val, sf.serving_size.val>>>>
                 ELSE <<>>
        text == sf.household_serving_full_text.val
        kv == SplitOnce(text, " ")
        amount == ParseF32(kv.before)
    IN  IF ~sf.household_serving_full_text.some THEN [returned |-> FALSE, res |-> first]
        ELSE IF ~kv.found THEN [returned |-> TRUE, res |-> first]
        ELSE IF ~amount.ok THEN [returned |-> TRUE, res |-> first]
        ELSE [returned |-> FALSE, res |-> Append(first, <<kv.after, amount.val>>)]

\* SearchFood::servings of search.rs: the ("g", 100.0) entry is pushed when
\* the end of the function is reached with an empty table.
servings(sf) ==
    LET r == ServingsParsed(sf)
    IN  IF ~r.returned /\ r.res = <<>> THEN <<<<U_g, Num(100, 1)>>>> ELSE r.res

\* SearchFood::servings of main.rs.
MainServings(sf) == ServingsParsed(sf).res

InitSearch ==
    /\ mode = "search"
    /\ food = Plain
    /\ serving = ServingDefault
    /\ result = NoResult
    /\ pc = "idle"
    /\ fs = <<>>
    /\ last = NoCall
    /\ input \in SearchFoods

Servings(impl) ==
    /\ mode = "search"
    /\ last' = Call("servings", impl, input,
                    IF impl = "main.rs" THEN MainServings(input) ELSE servings(input))
    /\ UNCHANGED <<input, mode, food, serving, result, pc, fs>>

NextSearch == \E i \in SearchImpls : Servings(i)

SpecSearch == InitSearch /\ [][NextSearch]_vars

-----------------------------------------------------------------------------
(* Claims about the servings of a search result *)

\* The entries the fields of a search result give: (unit, size) when both
\* are present, and (unit, amount) of a household text "amount unit".
Derived(sf) ==
    LET h == sf.household_serving_full_text
        cut == IF h.some /\ \E i \in 1..Len(h.val) : h.val[i] = " "
               THEN CHOOSE i \in 1..Len(h.val) :
                        h.val[i] = " " /\ \A j \in 1..(i - 1) : h.val[j] # " "
               ELSE 0
        amount == IF cut = 0 THEN [ok |-> FALSE] ELSE ParseF32(SubSeq(h.val, 1, cut - 1))
    IN  (IF sf.serving_size_unit.some /\ sf.serving_size.some
         THEN <<<<sf.serving_size_unit.val, sf.serving_size.val>>>> ELSE <<>>)
        \o (IF amount.ok THEN <<<<SubSeq(h.val, cut + 1, Len(h.val)), amount.val>>>> ELSE <<>>)

\* C26: the servings table of a search result is never empty: it holds the
\* entries its fields give, and is exactly [("g", 100)] when they give none.
C26_ServingsNeverEmpty ==
    last.op = "servings" =>
        /\ last.res # <<>>
        /\ last.res = IF Derived(last.arg) = <<>> THEN <<<<U_g, Num(100, 1)>>>>
                      ELSE Derived(last.arg)

-----------------------------------------------------------------------------
(* Food::nutrients, "the nutrients in one serving": a caller holds a food  *)
(* and calls nutrients once.                                               *)

\* Food::nutrients; SumNutrients is the fold of impl Sum for Nutrients over
\* the ingredients from index i on.
RECURSIVE nutrients(_), SumNutrients(_, _, _)
nutrients(f) ==
    IF f.spec.tag = "Nutrients" THEN f.spec.n
    ELSE SumNutrients(f.spec.list, 1, NutrientsDefault)

SumNutrients(ingredients, i, res) ==
    IF i > Len(ingredients) THEN res
    ELSE SumNutrients(ingredients, i + 1, NAdd(res, nutrients(ingredients[i].food)))

InitNutrients ==
    /\ mode = "nutrients"
    /\ food \in LeafFoods \cup CompositeFoods
    /\ serving = ServingDefault
    /\ result = NoResult
    /\ pc = "call"
    /\ fs = NoFs
    /\ last = NoCall
    /\ input = NoInput

NutrientsCall ==
    /\ mode = "nutrients"
    /\ pc = "call"
    /\ result' = Ok(nutrients(food))
    /\ pc' = "done"
    /\ UNCHANGED <<input, mode, food, serving, fs, last>>

NextNutrients == NutrientsCall

SpecOneServing == InitNutrients /\ [][NextNutrients]_vars

-----------------------------------------------------------------------------
(* Claims about Food::nutrients *)

\* C28: nutrients() of a food is what serve gives for one serving with no
\* unit, whether the food is defined by nutrients or by ingredients.
C28_NutrientsIsOneServing ==
    mode = "nutrients" /\ pc = "done" => result = serve(food, ServingDefault)

-----------------------------------------------------------------------------
(* Claims about unit names that are prefixes of one another *)

\* The pairs of entries of a servings table where the name of the first is
\* a prefix of, or equal to, the name of the second.
PrefixPairs(t) ==
    {<<i, j>> \in (1..Len(t)) \X (1..Len(t)) : i # j /\ StartsWith(t[j][1], t[i][1])}

\* The servings section of the text holds such a pair, with sizes that parse.
SectionHasPrefixPair(ini) ==
    /\ ini.ok /\ ini.servings.some
    /\ PrefixPairs(ini.servings.val) # {}
    /\ \A i \in 1..Len(ini.servings.val) : ParseF32(ini.servings.val[i][2]).ok

\* C29: a unit name gets no priority for being matched in full.  When the
\* name of one entry of a loaded food's table is a prefix of, or equal to,
\* the name of another, every request the shorter name matches fails as
\* ambiguous, the shorter name itself included; and Food::load reports an
\* error for such a table exactly when it reports one for the same text
\* without the servings section.
C29_ExactNameNoPriority ==
    /\ mode = "Food::load" /\ pc = "served" /\ serving.unit.some =>
          \A pair \in PrefixPairs(food.servings) :
              StartsWith(food.servings[pair[1]][1], serving.unit.val) =>
                  ~last.res.ok /\ last.res.err.kind = "ambiguous"
    /\ mode = "Food::load" /\ pc \in {"done", "served"} /\ SectionHasPrefixPair(input.src) =>
          (result.ok <=> FoodLoad([input.src EXCEPT !.servings = None], input.resolver).ok)

\* A food with the units "c" and "cu" was loaded without error and asked
\* for one "c": the request is ambiguous.
C29_Witness ==
    /\ mode = "Food::load" /\ pc = "served"
    /\ SectionHasPrefixPair(input.src)
    /\ result.ok
    /\ UnitNames(food.servings) = <<U_c, U_cu>>
    /\ serving.unit = Some(U_c)
    /\ ~last.res.ok /\ last.res.err.kind = "ambiguous"

-----------------------------------------------------------------------------
(* Resolution step by step.  The store loads the food file of a key with   *)
(* Food::load and hands it a resolver that loads the file of every         *)
(* ingredient key in the same way; the food that comes back is served.     *)
(* Each call in progress is a frame of a stack, so that a call that never  *)
(* returns is a behaviour and not an undefined value.  The recursion of    *)
(* the load is cut off at MaxStack frames.                                  *)

MaxStack == 4

\* The keys with a file: "a", which is the food asked for, and "b".
ResolveKeys == {K_a, K_b}

\* Entries of an [ingredients] section: "a = 1", "b = 2 g", "zz = 1".
ResolveEntries == {<<K_a, <<"1">>>>, <<K_b, <<"2", " ", "g">>>>, <<K_zz, <<"1">>>>}

LeafIni ==
    Ini(<<<<S_name, <<"L">>>>>>, Some(<<<<U_g, <<"2">>>>>>), Some(<<<<S_kcal, <<"5">>>>>>), None)
IngredientsIni(l) == Ini(<<<<S_name, <<"N">>>>>>, None, None, Some(l))

\* The files of "a": none, a leaf, every list of at most MaxRefs entries, a
\* text with no name that names "a", and "a = x", a serving that is no number.
TextsOfA ==
    {None, Some(LeafIni)}
    \cup {Some(IngredientsIni(l)) : l \in SeqsUpTo(ResolveEntries, MaxRefs)}
    \cup {Some(Ini(<<>>, None, None, Some(<<<<K_a, <<"1">>>>>>))),
          Some(IngredientsIni(<<<<K_a, <<"x">>>>>>))}

\* The files of "b": none, a leaf, "a = 1" and "b = 2 g".
TextsOfB ==
    {None, Some(LeafIni), Some(IngredientsIni(<<<<K_a, <<"1">>>>>>)),
     Some(IngredientsIni(<<<<K_b, <<"2", " ", "g">>>>>>))}

\* The file of a key, None when there is no file.
StoreText(key) == IF key \in DOMAIN fs THEN fs[key] ELSE None

\* A call of the store's load in progress: the key, the index of the next
\* ingredient entry, the ingredients resolved so far and, once the call is
\* over, what it returns.
LoadFrame(key) == [key |-> key, i |-> 1, ingredients |-> <<>>, out |-> None]

\* A call of serve in progress: the food and serving, the index of the next
\* ingredient, the running total, the place of the food in the tree and,
\* once the call is over, what it returns.
ServeFrame(f, s, path) ==
    [food |-> f, s |-> s, i |-> 1, res |-> NutrientsDefault, path |-> path, out |-> None]

\* Food::load up to its first call of load_food: the result for the text
\* with no ingredient entries.
LoadHeader(ini) ==
    FoodLoad([ini EXCEPT !.ingredients = IF @.some THEN Some(<<>>) ELSE @], <<>>)

\* LoadHeader and the parsed servings of the entries, tabulated over the
\* texts a file may hold.
StoredInis == {t.val : t \in (TextsOfA \cup TextsOfB) \ {None}}
HeaderOf == [ini \in StoredInis |-> LoadHeader(ini)]
ServingTexts ==
    UNION {{ini.ingredients.val[i][2] : i \in 1..Len(ini.ingredients.val)} : ini \in StoredInis}
ServingOf == [v \in ServingTexts |-> ServingFromStr(v)]

\* The frame after load_food(k) returned r for its entry i (food.rs:205-211):
\* an error or None ends the load, a food is pushed as the next ingredient.
LoadReceive(frame, ini, r) ==
    LET k == ini.ingredients.val[frame.i][1]
        sv == ServingOf[ini.ingredients.val[frame.i][2]]
    IN  IF ~r.ok THEN [frame EXCEPT !.out = Some(Failed(r.err))]
        ELSE IF ~r.some THEN [frame EXCEPT !.out = Some(Failed(ErrNotFound(k)))]
        ELSE [frame EXCEPT !.i = @ + 1,
                           !.ingredients = Append(@, Ingredient(k, sv.val, r.val))]

\* Mutant of ServeReceive: the ingredient after the one served is skipped.
ServeReceive_SkipsNext(frame, r) ==
    IF ~r.ok THEN [frame EXCEPT !.out = Some(r)]
    ELSE [frame EXCEPT !.i = @ + 2, !.res = NAdd(@, r.val)]

\* The frame after serve of its ingredient i returned r (food.rs:92-94): an
\* error is returned as it is, nutrients are added to the total.
ServeReceive(frame, r) ==
    IF ~r.ok THEN [frame EXCEPT !.out = Some(r)]
    ELSE [frame EXCEPT !.i = @ + 1, !.res = NAdd(@, r.val)]

Top(stack) == stack[Len(stack)]
Pop(stack) == SubSeq(stack, 1, Len(stack) - 1)
SetTop(stack, frame) == [stack EXCEPT ![Len(stack)] = frame]

InitResolve ==
    /\ mode = "resolve"
    /\ food = Plain
    /\ serving \in {Serving(Num(2, 1), None), Serving(One, Some(U_g))}
    /\ result = NoResult
    /\ pc = "load"
    /\ fs \in [ResolveKeys -> TextsOfA \cup TextsOfB]
    /\ fs[K_a] \in TextsOfA
    /\ fs[K_b] \in TextsOfB
    /\ last = NoCall
    /\ input = [stack |-> <<LoadFrame(K_a)>>, calls |-> <<>>, visited |-> <<>>]

\* The running load goes on to the point where it returns or calls
\* load_food for its next entry.
FoodLoadStep ==
    /\ mode = "resolve" /\ pc = "load"
    /\ ~Top(input.stack).out.some
    /\ LET top == Top(input.stack)
           text == StoreText(top.key)
           ini == text.val
           header == HeaderOf[ini]
           props == ini.ingredients.val
           name == Get(ini.general, S_name)
           out == IF ~text.some THEN Some(NotFound)
                  ELSE IF ~header.ok THEN Some(Failed(header.err))
                  ELSE IF ~ini.ingredients.some THEN Some(Found(header.val))
                  ELSE IF top.i > Len(props)
                  THEN Some(Found(Food(name.val, SpecIngredients(top.ingredients),
                                       header.val.servings)))
                  ELSE IF ~ServingOf[props[top.i][2]].ok THEN Some(Failed(ErrParse))
                  ELSE None
       IN  IF out.some
           THEN input' = [input EXCEPT !.stack = SetTop(@, [top EXCEPT !.out = out])]
           ELSE /\ Len(input.stack) < MaxStack
                /\ input' = [input EXCEPT !.stack = Append(@, LoadFrame(props[top.i][1]))]
    /\ UNCHANGED <<mode, food, serving, result, pc, fs, last>>

\* A load returns: to the frame that called it, or, for the food asked
\* for, to the caller, who serves the food when there is one.
FoodLoadReturn ==
    /\ mode = "resolve" /\ pc = "load"
    /\ Top(input.stack).out.some
    /\ LET r == Top(input.stack).out.val
           rest == Pop(input.stack)
       IN  IF rest = <<>>
           THEN /\ last' = Call("load", K_a, <<>>, r)
                /\ IF r.ok /\ r.some
                   THEN /\ food' = r.val
                        /\ pc' = "serve"
                        /\ input' = [input EXCEPT !.stack = <<>>,
                                                  !.calls = <<ServeFrame(r.val, serving, <<>>)>>]
                   ELSE /\ food' = food
                        /\ pc' = "done"
                        /\ input' = [input EXCEPT !.stack = <<>>]
           ELSE /\ input' = [input EXCEPT
                                !.stack = SetTop(rest, LoadReceive(Top(rest),
                                                     StoreText(Top(rest).key).val, r))]
                /\ UNCHANGED <<food, pc, last>>
    /\ UNCHANGED <<mode, serving, result, fs>>

\* The running serve goes on to the point where it returns or serves its
\* next ingredient.
ServeStep ==
    /\ mode = "resolve" /\ pc = "serve"
    /\ ~Top(input.calls).out.some
    /\ LET top == Top(input.calls)
           p == Portion(top.food, top.s)
           ings == top.food.spec.list
           out == IF ~p.ok THEN Some(Err(p.err))
                  ELSE IF top.food.spec.tag = "Nutrients"
                  THEN Some(Ok(NMul(top.food.spec.n, p.val)))
                  ELSE IF top.i > Len(ings) THEN Some(Ok(top.res))
                  ELSE None
       IN  IF out.some
           THEN input' = [input EXCEPT !.calls = SetTop(@, [top EXCEPT !.out = out])]
           ELSE input' = [input EXCEPT
                             !.calls = Append(@, ServeFrame(ings[top.i].food,
                                                      SMul(ings[top.i].serving, p.val),
                                                      Append(top.path, top.i))),
                             !.visited = Append(@, Append(top.path, top.i))]
    /\ UNCHANGED <<mode, food, serving, result, pc, fs, last>>

\* A serve returns: to the frame that called it or to the caller.
ServeReturn ==
    /\ mode = "resolve" /\ pc = "serve"
    /\ Top(input.calls).out.some
    /\ LET r == Top(input.calls).out.val
           rest == Pop(input.calls)
       IN  IF rest = <<>>
           THEN /\ result' = r
                /\ pc' = "done"
                /\ input' = [input EXCEPT !.calls = <<>>]
           ELSE /\ input' = [input EXCEPT !.calls = SetTop(rest, ServeReceive(Top(rest), r))]
                /\ UNCHANGED <<result, pc>>
    /\ UNCHANGED <<mode, food, serving, fs, last>>

NextResolve ==
    \/ FoodLoadStep
    \/ FoodLoadReturn
    \/ ServeStep
    \/ ServeReturn

\* The process keeps running: a step that can be taken is taken.
SpecResolve == InitResolve /\ [][NextResolve]_vars /\ WF_vars(NextResolve)

-----------------------------------------------------------------------------
(* Claims about the termination of resolution *)

\* The keys the ingredient entries of a key's file name.
StoredRefs(k) ==
    LET t == StoreText(k)
    IN  IF t.some /\ t.val.ok /\ t.val.ingredients.some
        THEN {t.val.ingredients.val[i][1] : i \in 1..Len(t.val.ingredients.val)}
        ELSE {}

RECURSIVE Closure(_)
Closure(S) ==
    LET n == S \cup UNION {StoredRefs(x) : x \in S}
    IN  IF n = S THEN S ELSE Closure(n)

\* The keys a key refers to, directly or through other keys.
Reach(k) == Closure(StoredRefs(k))

\* The references of the food asked for lead into a cycle.
Cyclic == \E k \in {K_a} \cup Reach(K_a) : k \in Reach(k)

\* What resolving a key comes to while the keys of `chain` are being
\* resolved, the entries taken in file order up to the first that fails:
\* "cycle" when a key of the chain is met again.
RECURSIVE Walk(_, _), WalkEntries(_, _, _)
Walk(k, chain) ==
    LET t == StoreText(k)
    IN  IF k \in chain THEN "cycle"
        ELSE IF ~t.some THEN "none"
        ELSE IF ~LoadHeader(t.val).ok THEN "fail"
        ELSE IF ~t.val.ingredients.some THEN "ok"
        ELSE WalkEntries(t.val.ingredients.val, 1, chain \cup {k})

WalkEntries(props, i, chain) ==
    IF i > Len(props) THEN "ok"
    ELSE IF ~ServingFromStr(props[i][2]).ok THEN "fail"
    ELSE LET w == Walk(props[i][1], chain)
         IN  IF w = "cycle" THEN "cycle"
             ELSE IF w \in {"none", "fail"} THEN "fail"
             ELSE WalkEntries(props, i + 1, chain)

EntersCycle == Walk(K_a, {}) = "cycle"

\* The places of the ingredients in the tree of a food, each the indices
\* that lead to it.
RECURSIVE AllPaths(_)
AllPaths(f) ==
    IF f.spec.tag = "Nutrients" THEN {}
    ELSE UNION {{<<i>>} \cup {<<i>> \o q : q \in AllPaths(f.spec.list[i].food)} :
                   i \in 1..Len(f.spec.list)}

\* The serve that has returned gave what Food::serve gives and went to no
\* ingredient twice, and to every ingredient when it returned nutrients.
ServedOnce ==
    mode = "resolve" /\ pc = "done" /\ last.res.ok /\ last.res.some =>
        /\ result = serve(food, serving)
        /\ \A i, j \in 1..Len(input.visited) : i # j => input.visited[i] # input.visited[j]
        /\ {input.visited[i] : i \in 1..Len(input.visited)} \subseteq AllPaths(food)
        /\ result.ok => {input.visited[i] : i \in 1..Len(input.visited)} = AllPaths(food)

\* C27: resolution terminates exactly when the references of the food asked
\* for lead into no cycle: a load that has returned had no cycle among its
\* references, and a serve that has returned went to each ingredient once.
C27_TerminatesIffAcyclic ==
    /\ mode = "resolve" /\ pc # "load" => ~Cyclic
    /\ ServedOnce

\* C27, amended: the load returns unless its walk through the entries, in
\* file order and up to the first entry that fails, comes back to a key it
\* is resolving; then it recurses until the stack is full.  The serve of a
\* loaded food always returns, with the result of Food::serve, after going
\* to each ingredient once.
C27_TerminatesUnlessCycleEntered ==
    /\ [](mode = "resolve" /\ pc # "load" => ~EntersCycle)
    /\ [](mode = "resolve" /\ EntersCycle => <>(Len(input.stack) = MaxStack))
    /\ [](mode = "resolve" /\ ~EntersCycle => <>(pc = "done"))
    /\ []ServedOnce

\* The load of "a" has filled the stack with calls, one key more than once.
C27_Witness ==
    /\ mode = "resolve" /\ pc = "load"
    /\ EntersCycle
    /\ Len(input.stack) = MaxStack
    /\ \E i, j \in 1..MaxStack : i < j /\ input.stack[i].key = input.stack[j].key
    /\ \A i \in 1..MaxStack : ~input.stack[i].out.some

-----------------------------------------------------------------------------
(* save_food and save_journal step by step, with a crash.  File::create    *)
(* opens the file and truncates it; the writeln! calls fill the BufWriter, *)
(* which writes to the file when its buffer is full and when it is         *)
(* dropped.  The process may die between any two of these steps.           *)

\* A file of the food or the journal directory.
FileAt(f, t) == IF t.dir = "food" THEN f.food[t.path] ELSE f.journal[t.path]
WithFile(f, t, e) ==
    IF t.dir = "food" THEN [f EXCEPT !.food[t.path] = e]
    ELSE [f EXCEPT !.journal[t.path] = e]

\* Mutant of Create: the file is opened without being truncated.
Create_KeepsContent(e) == IF e.kind = "file" THEN e ELSE File(<<>>)

\* File::create on a file that may be opened: it is empty afterwards.
Create(e) == File(<<>>)

\* The file after the first n lines of text were written to it from the
\* start, base being its content when it was opened.
Written(base, text, n) ==
    File(StrLines(WriteAtStart(FileBytes(base.text), FileBytes(SubSeq(text, 1, n))), <<>>))

\* The contents a food file or a journal file may have when a save begins.
CrashFoodFiles == {Absent, Denied} \cup {File(SaveFoodText(f)) : f \in FoodValues}
CrashJournalFiles == {Absent} \cup {File(SaveJournalText(j)) : j \in JournalValues}

InitCrash ==
    /\ mode = "crash"
    /\ food = Plain
    /\ serving = ServingDefault
    /\ result = NoResult
    /\ pc = "idle"
    /\ \E a \in CrashFoodFiles, made \in BOOLEAN, j \in CrashJournalFiles :
          /\ ~made => j = Absent
          /\ fs = [food |-> [n \in FoodFileNames |->
                                IF n = FoodPath(K_a, S_txt) THEN a
                                ELSE IF n = FoodPath(K_b, S_txt) THEN File(SaveFoodText(EatClash))
                                ELSE Absent],
                   dirs |-> IF made THEN {JournalDir(RaceDate)} ELSE {},
                   journal |-> [p \in JournalPaths |-> IF p = RacePath THEN j ELSE Absent]]
    /\ last = Call("new", <<>>, <<>>, CallOk)
    /\ input = [target |-> [dir |-> "food", path |-> FoodPath(K_a, S_txt)],
                text |-> <<>>, before |-> <<>>, base |-> Absent, n |-> 0]

\* save_food up to File::create (lib.rs:315-316).
SaveFoodCreates(key, f) ==
    /\ mode = "crash" /\ pc = "idle"
    /\ LET t == [dir |-> "food", path |-> FoodPath(key, S_txt)]
       IN  IF FileAt(fs, t).kind = "denied"
           THEN /\ last' = Call("save_food", key, f, LoadErr)
                /\ UNCHANGED <<fs, pc, input>>
           ELSE /\ last' = Call("File::create", key, f, CallOk)
                /\ fs' = WithFile(fs, t, Create(FileAt(fs, t)))
                /\ pc' = "writing"
                /\ input' = [target |-> t, text |-> SaveFoodText(f), before |-> fs,
                             base |-> Create(FileAt(fs, t)), n |-> 0]
    /\ UNCHANGED <<mode, food, serving, result>>

\* save_journal up to File::create (lib.rs:379-380).
SaveJournalCreates(date, j) ==
    /\ mode = "crash" /\ pc = "idle"
    /\ LET t == [dir |-> "journal", path |-> journal_path(date)]
       IN  IF JournalDir(date) \notin fs.dirs \/ FileAt(fs, t).kind = "denied"
           THEN /\ last' = Call("save_journal", date, j, LoadErr)
                /\ UNCHANGED <<fs, pc, input>>
           ELSE /\ last' = Call("File::create", date, j, CallOk)
                /\ fs' = WithFile(fs, t, Create(FileAt(fs, t)))
                /\ pc' = "writing"
                /\ input' = [target |-> t, text |-> SaveJournalText(j), before |-> fs,
                             base |-> Create(FileAt(fs, t)), n |-> 0]
    /\ UNCHANGED <<mode, food, serving, result>>

\* The BufWriter writes k more lines; with the last of them the save
\* returns (lib.rs:317-327, 381-385).
BufWriterWrites(k) ==
    /\ mode = "crash" /\ pc = "writing"
    /\ \/ k = 0 /\ input.n = Len(input.text)
       \/ k >= 1 /\ input.n + k <= Len(input.text)
    /\ fs' = WithFile(fs, input.target, Written(input.base, input.text, input.n + k))
    /\ input' = [input EXCEPT !.n = @ + k]
    /\ pc' = IF input.n + k = Len(input.text) THEN "idle" ELSE "writing"
    /\ last' = Call("write", input.target, k, CallOk)
    /\ UNCHANGED <<mode, food, serving, result>>

\* The process dies during the save.
Crash ==
    /\ mode = "crash" /\ pc = "writing"
    /\ pc' = "crashed"
    /\ UNCHANGED <<input, mode, food, serving, result, fs, last>>

\* The most lines one write of the BufWriter carries.
MaxChunk == 7

NextCrash ==
    \/ \E f \in FoodValues : SaveFoodCreates(K_a, f)
    \/ \E j \in JournalValues : SaveJournalCreates(RaceDate, j)
    \/ \E k \in 0..MaxChunk : BufWriterWrites(k)
    \/ Crash

SpecCrash == InitCrash /\ [][NextCrash]_vars

-----------------------------------------------------------------------------
(* Claims about a crash during a save *)

IsLinePrefix(p, t) == Len(p) <= Len(t) /\ SubSeq(t, 1, Len(p)) = p

====
